---- MODULE Spec2Model ----
(***************************************************************************)
(* MatLogic graph editor (frontend/src/App.tsx): the client state of the   *)
(* App component, the requests it has in flight, the browser's timers and  *)
(* local storage, and the backend the requests are answered by.            *)
(*                                                                         *)
(* JavaScript runs every handler to completion: a handler is one action    *)
(* per synchronous block (from its start or from the answer it awaits to   *)
(* the next await).  Where a claim is about the order of two calls inside  *)
(* one block the block is cut in two steps and pc keeps every other        *)
(* action from running in between.  React's effects run with the state     *)
(* change that triggers them: the rebuild effect and the load effect are   *)
(* part of the action that changes one of their dependencies.              *)
(***************************************************************************)
EXTENDS Integers, Sequences, FiniteSets, TLC

VARIABLES
  \* ----- React state of App (App.tsx 276-342)
  users, graphs, nodes, edges,      \* local copies of the backend collections
  selectedUserId, selectedGraphId,
  error,                            \* the error banner
  authToken, me,
  selectedNodeIds, selectedEdgeIds,
  searchQuery,
  rfNodes, rfEdges,                 \* the rendered view model
  saveTimer,                        \* ref: id of the last position-save timer
  \* ----- browser
  posStore,                         \* localStorage, matlogic:positions:<graph>
  timers,                           \* pending window.setTimeout callbacks
  now,                              \* time in ms
  \* ----- requests in flight and the backend
  pending,
  srvNodes, srvEdges, srvNextEdgeId,
  srvIssued,                        \* the graphs and nodes the backend created
  srvTech,                          \* the backend's technique record per node
  \* ----- technique panel (App.tsx 327-333)
  isPanelOpen, activeNodeId, techVideoUrl, techSteps,
  techniqueSaveTimer,               \* ref: id of the last autosave timer
  techTimers,                       \* pending autosave timers
  \* ----- session and appearance (App.tsx 287-294, 316-319)
  theme,
  authError, authLoading,           \* the login form's message and busy flag
  localStorage,                     \* localStorage, matlogic:token and matlogic:theme
  \* ----- control
  pc,                               \* "idle", or the block a handler is in
  cur,                              \* what the running handler holds
  ev,                               \* the handler step taken last
  ops,                              \* user gestures so far
  log                               \* position-save history: events and writes

collVars   == <<users, graphs, nodes, edges>>
selVars    == <<selectedUserId, selectedGraphId>>
authVars   == <<authToken, me>>
pickVars   == <<selectedNodeIds, selectedEdgeIds>>
viewVars   == <<rfNodes, rfEdges>>
timerVars  == <<saveTimer, timers, now, log>>
srvVars    == <<srvNodes, srvEdges, srvNextEdgeId>>
panelVars  == <<isPanelOpen, activeNodeId, techVideoUrl, techSteps>>
techVars   == <<panelVars, techniqueSaveTimer, techTimers, srvTech>>
sessVars   == <<theme, authError, authLoading, localStorage>>
vars == <<collVars, selVars, authVars, pickVars, error, searchQuery, viewVars,
          timerVars, posStore, pending, srvVars, srvIssued, techVars, sessVars,
          pc, cur, ev, ops>>

-----------------------------------------------------------------------------
\* Bounds of the model
MaxOps     == 3      \* user gestures of one run of the editor model
MaxEvents  == 3      \* node-change events of one run of the position model
MaxTime    == 400    \* the position model's clock stops here (ms)

\* null / undefined of a number-valued state; ids are positive, so that
\* `!x` and `x == null` agree on every id
NULL == 0
NaN  == -1           \* Number("reactflow__edge-...")

-----------------------------------------------------------------------------
\* The backend's fixed part: one user, two graphs, three techniques.
UserIds  == {1}
GraphIds == {1, 2}
NodeIds  == {1, 2, 3}
GraphOf(n) == IF n <= 2 THEN 1 ELSE 2

\* names as sequences of characters
NameOf(n) == CASE n = 1 -> <<"A", "r", "m">>
               [] n = 2 -> <<"K", "i">>
               [] OTHER -> <<"a", "R">>

UserRec(u)  == [id |-> u]
GraphRec(g) == [id |-> g, user_id |-> 1]
NodeRec(n)  == [id |-> n, name |-> NameOf(n), graph_id |-> GraphOf(n)]
EdgeRec(i, s, t, ty, lb) ==
  [id |-> i, from_node_id |-> s, to_node_id |-> t, edge_type |-> ty, label |-> lb]

EdgeTypes == {"positive", "neutral", "negative"}

-----------------------------------------------------------------------------
\* Sequence helpers (Array.prototype.filter / map / includes)
Range(s) == {s[i] : i \in 1..Len(s)}
Map(s, F(_)) == [i \in 1..Len(s) |-> F(s[i])]
Filter(s, P(_)) == SelectSeq(s, P)
Ids(s) == {s[i].id : i \in 1..Len(s)}

RECURSIVE SortById(_)
SortById(S) ==
  IF S = {} THEN <<>>
  ELSE LET m == CHOOSE x \in S : \A y \in S : x.id <= y.id
       IN  <<m>> \o SortById(S \ {m})

\* String(n) of a number and Number(s) of a rendered id: a rendered id is
\* either the decimal text of a backend id or the id addEdge generates.
Str(n) == [k |-> "num", a |-> n, b |-> 0]
ProvId(s, t) == [k |-> "reactflow__edge", a |-> s.a, b |-> t.a]
Num(x) == IF x.k = "num" THEN x.a ELSE NaN
IsFinite(n) == n # NaN

-----------------------------------------------------------------------------
\* Strings of the search box: sequences of characters
ToLowerChar(c) == CASE c = "A" -> "a" [] c = "K" -> "k" [] c = "R" -> "r"
                    [] c = "M" -> "m" [] c = "I" -> "i" [] OTHER -> c
ToLower(s) == [i \in 1..Len(s) |-> ToLowerChar(s[i])]
IsSpace(c) == c = " "
RECURSIVE TrimLeft(_)
TrimLeft(s) == IF s # <<>> /\ IsSpace(Head(s)) THEN TrimLeft(Tail(s)) ELSE s
RECURSIVE TrimRight(_)
TrimRight(s) ==
  IF s # <<>> /\ IsSpace(s[Len(s)]) THEN TrimRight(SubSeq(s, 1, Len(s) - 1)) ELSE s
Trim(s) == TrimRight(TrimLeft(s))
\* String.prototype.includes
Includes(hay, needle) ==
  \E i \in 0..(Len(hay) - Len(needle)) : SubSeq(hay, i + 1, i + Len(needle)) = needle

-----------------------------------------------------------------------------
\* Local storage of node positions (App.tsx 125-147).  A stored value is the
\* JSON text of a position map: its entries in the order JSON.stringify
\* writes them (integer-like keys ascending).
Pos(x, y) == [x |-> x, y |-> y]
NoItem == [present |-> FALSE, text |-> <<>>]

RECURSIVE StringifyKeys(_, _)
StringifyKeys(map, ks) ==
  IF ks = {} THEN <<>>
  ELSE LET m == CHOOSE k \in ks : \A j \in ks : k.a <= j.a
       IN  <<[key |-> m, x |-> map[m].x, y |-> map[m].y]>> \o StringifyKeys(map, ks \ {m})
JsonStringify(map) == [present |-> TRUE, text |-> StringifyKeys(map, DOMAIN map)]
JsonParse(raw) ==
  [k \in {raw.text[i].key : i \in 1..Len(raw.text)} |->
     LET i == CHOOSE j \in 1..Len(raw.text) : raw.text[j].key = k
     IN  Pos(raw.text[i].x, raw.text[i].y)]

EmptyMap == [k \in {} |-> Pos(0, 0)]
loadPositions(store, graphId) ==
  IF graphId \notin DOMAIN store \/ ~store[graphId].present THEN EmptyMap
  ELSE JsonParse(store[graphId])
savePositionsSharedKey(store, graphId, map) ==
  [g \in DOMAIN store |-> JsonStringify(map)]

savePositions(store, graphId, map) ==
  [g \in DOMAIN store \cup {graphId} |->
     IF g = graphId THEN JsonStringify(map) ELSE store[g]]

\* persistPositions (App.tsx 552-562); sg is the selectedGraphId the
\* callback was created with
PosMapOf(nextNodes) ==
  [k \in {nextNodes[i].id : i \in 1..Len(nextNodes)} |->
     LET i == CHOOSE j \in 1..Len(nextNodes) : nextNodes[j].id = k
     IN  nextNodes[i].position]
persistPositions(store, sg, nextNodes) ==
  IF sg = NULL THEN store ELSE savePositions(store, sg, PosMapOf(nextNodes))

\* Math.random() placements of the rebuild: two of the possible outcomes
RandomPositions == {Pos(80, 80), Pos(499, 300)}

-----------------------------------------------------------------------------
\* The view model (App.tsx 263-273, 481-549)
edgeStroke(type) ==
  CASE type = "positive" -> "#16a34a"
    [] type = "neutral"  -> "#1f307cff"
    [] OTHER             -> "#dc2626"

nextEdgeType(type) ==
  CASE type = "positive" -> "neutral"
    [] type = "neutral"  -> "negative"
    [] OTHER             -> "positive"

graphNodes(ns, sg) ==
  IF sg = NULL THEN <<>> ELSE LET InG(n) == n.graph_id = sg IN Filter(ns, InG)

graphEdgesAll(es, ns, sg) == IF sg = NULL THEN <<>> ELSE es

graphEdges(es, ns, sg) ==
  IF sg = NULL THEN <<>>
  ELSE LET nodeIds == Ids(graphNodes(ns, sg))
           Both(e) == e.from_node_id \in nodeIds /\ e.to_node_id \in nodeIds
       IN  Filter(es, Both)

matchingNodeIds(q, ns, sg) ==
  LET qq == ToLower(Trim(q))
      Hit(n) == Includes(ToLower(n.name), qq)
  IN  IF qq = <<>> THEN {} ELSE Ids(Filter(graphNodes(ns, sg), Hit))

\* the nodes the rebuild has no saved position for
Unsaved(sg, ns, store) ==
  IF sg = NULL THEN {}
  ELSE {n \in Ids(graphNodes(ns, sg)) : Str(n) \notin DOMAIN loadPositions(store, sg)}

nextRfNodes(sg, ns, q, store, rnd) ==
  IF sg = NULL THEN <<>>
  ELSE LET pos   == loadPositions(store, sg)
           match == matchingNodeIds(q, ns, sg)
           Rf(n) ==
             LET isMatch == IF match = {} THEN FALSE ELSE n.id \in match
             IN  [id |-> Str(n.id), label |-> n.name,
                  dimmed |-> (match # {} /\ ~isMatch), highlighted |-> isMatch,
                  position |-> IF Str(n.id) \in DOMAIN pos THEN pos[Str(n.id)]
                               ELSE rnd[n.id]]
       IN  Map(graphNodes(ns, sg), Rf)

nextRfEdges(sg, ns, es, q) ==
  IF sg = NULL THEN <<>>
  ELSE LET match == matchingNodeIds(q, ns, sg)
           Rf(e) ==
             [id |-> Str(e.id), source |-> Str(e.from_node_id),
              target |-> Str(e.to_node_id), label |-> e.label,
              stroke |-> edgeStroke(e.edge_type),
              dimmed |-> (match # {} /\ (e.from_node_id \notin match
                                           \/ e.to_node_id \notin match))]
       IN  Map(graphEdges(es, ns, sg), Rf)

\* The rebuild effect, run by every action that changes nodes, edges,
\* selectedGraphId or searchQuery; it reads the state the action leaves.
Rebuild ==
  \E rnd \in [Unsaved(selectedGraphId', nodes', posStore') -> RandomPositions] :
    /\ rfNodes' = nextRfNodes(selectedGraphId', nodes', searchQuery', posStore', rnd)
    /\ rfEdges' = nextRfEdges(selectedGraphId', nodes', edges', searchQuery')

-----------------------------------------------------------------------------
\* The error banner: a message, with the status and the body where the
\* message is built from them
Msg(m) == [msg |-> m, status |-> 0, body |-> ""]
NoError == Msg("null")
NoToken == "null"

LoadFailedMsg   == Msg("Failed to load data from backend")
DeleteFailedMsg == Msg("Failed to delete selection")
NotAuthMsg      == Msg("Not authenticated.")
EdgeNotSavedMsg ==
  Msg("edge updated in ui, but backend did not accept the update (add a put/patch endpoint for edges to persist this).")
LabelNotSavedMsg ==
  Msg("label updated in ui, but backend did not accept the update (add a put/patch endpoint for edges to persist this).")

ConnectFailMessageGeneric(status, body) ==
  [msg |-> "Failed to create edge", status |-> status, body |-> body]

\* onConnect's message for an answered, failed create (App.tsx 658)
ConnectFailMessage(status, body) ==
  IF status = 409 THEN Msg("That edge already exists.")
  ELSE [msg |-> "Failed to create edge", status |-> status, body |-> body]
\* and for a request that threw (App.tsx 678)
ConnectNetworkMsg == Msg("Failed to create edge (network error)")

-----------------------------------------------------------------------------
\* Requests in flight.  The backend handles a request when it is sent; the
\* answer reaches the client later, in any order.
NoEdge == EdgeRec(0, 0, 0, "positive", <<>>)
NoPending == [me |-> {}, login |-> {}, load |-> {}, connect |-> {}, del |-> {}, upd |-> {},
              createNode |-> {}, createGraph |-> {}, techLoad |-> {}, techSave |-> {}]
InFlight(p) ==
  Cardinality(p.load) + Cardinality(p.connect) + Cardinality(p.del) + Cardinality(p.upd)

NoCur == [source |-> 0, target |-> 0, msg |-> NoError, status |-> 0,
          ids |-> {}, edgeIds |-> {}, reload |-> FALSE]
\* the last step: its name and, where it has them, the status of the answer
\* handled, the edge created and the ids a deletion was called with
\* a key event's target: its tagName, whether it is an HTMLElement, and its
\* isContentEditable
Target(tag, html, editable) == [tag |-> tag, html |-> html, editable |-> editable]
NoTarget == Target("", FALSE, FALSE)
Canvas   == Target("DIV", TRUE, FALSE)
Ev(op) == [op |-> op, status |-> 0, edge |-> NoEdge, ids |-> {}, key |-> "",
           target |-> NoTarget, input |-> <<>>]

\* The backend's answers to the four list requests
SrvUsersList  == SortById({UserRec(u) : u \in UserIds})
Issued(kind) == {x.rec : x \in {y \in srvIssued : y.k = kind}}
SrvGraphsList == SortById({GraphRec(g) : g \in GraphIds} \cup Issued("graph"))
SrvNodesList(sn) ==
  SortById({NodeRec(n) : n \in sn \cap NodeIds}
           \cup {x \in Issued("node") : x.id \in sn})
SrvEdgesList(se) == SortById(se)

\* loadAll up to its await (App.tsx 400-410): the banner is cleared and,
\* with a token, the four list requests are sent.  capG / capU are the
\* selections of the render the callback belongs to; after is the message
\* onConnect sets once the load it awaits has returned.
\* The Authorization header of a request: apiFetch (App.tsx 90-95) sets it
\* from the token it is given, a bare fetch sends none
NoAuthorization == "none"
apiFetch(token) == IF token = NoToken THEN NoAuthorization ELSE token
fetch == NoAuthorization

LoadRequest(tok, capG, capU, after, status) ==
  [auth |-> apiFetch(tok), snapGraphs |-> SrvGraphsList,
   snapNodes |-> SrvNodesList(srvNodes), snapEdges |-> SrvEdgesList(srvEdges),
   capGNull |-> (capG = NULL), capUNull |-> (capU = NULL),
   after |-> after, status |-> status]
NoAfter == Msg("none")

WithLoad(p, tok, capG, capU, after, status) ==
  IF tok = NoToken THEN p
  ELSE [p EXCEPT !.load = @ \cup {LoadRequest(tok, capG, capU, after, status)}]

-----------------------------------------------------------------------------
\* localStorage.getItem("matlogic:theme") when nothing was stored
NoTheme == "null"
\* the theme state's initial value (App.tsx 316-319)
initialTheme(saved) == IF saved = "dark" THEN "dark" ELSE "light"
\* what storage may hold under matlogic:theme when the page opens
SavedThemes == {NoTheme, "dark", "light", "blue"}
\* the theme button (App.tsx 1224-1226) and the theme effect
\* (App.tsx 321-324)
nextTheme(t) == IF t = "dark" THEN "light" ELSE "dark"
ToggleThemeUnsaved ==
  /\ pc = "idle" /\ me # NULL
  /\ ops < MaxOps /\ ops' = ops + 1
  /\ theme' = nextTheme(theme)
  /\ localStorage' = localStorage
  /\ ev' = Ev("toggleTheme")
  /\ UNCHANGED <<collVars, selVars, authVars, pickVars, error, searchQuery, viewVars,
                 timerVars, posStore, pending, srvVars, srvIssued, techVars,
                 authError, authLoading, pc, cur>>
ToggleTheme ==
  /\ pc = "idle" /\ me # NULL
  /\ ops < MaxOps /\ ops' = ops + 1
  /\ theme' = nextTheme(theme)
  /\ localStorage' = [localStorage EXCEPT !.theme = theme']
  /\ ev' = Ev("toggleTheme")
  /\ UNCHANGED <<collVars, selVars, authVars, pickVars, error, searchQuery, viewVars,
                 timerVars, posStore, pending, srvVars, srvIssued, techVars,
                 authError, authLoading, pc, cur>>

\* setToken (App.tsx 82-88)
setToken(ls, token) == [ls EXCEPT !.token = token]

\* fetchMe's request (App.tsx 97-98), sent by the auth effect or by the login
\* handler
MeRequest(tok, from) == [auth |-> apiFetch(tok), tok |-> tok, from |-> from]
\* what /auth/me and /auth/token answer: 2xx, non-2xx, or no answer at all
MeStatuses == {200, 401, 0}
Tokens == {"token", "token2"}
LoginAnswers == {[status |-> 200, tok |-> t] : t \in Tokens}
                  \cup {[status |-> 401, tok |-> NoToken], [status |-> 0, tok |-> NoToken]}
LoginRejectedMsg  == Msg("Invalid email or password.")
NoProfileMsg      == Msg("Login succeeded but failed to fetch profile.")
NoCredentialsMsg  == Msg("Enter email and password.")
AuthFailedMsg     == Msg("Authentication failed.")

\* The answer to a who-am-I request.  The auth effect's (App.tsx 388-395)
\* clears the session on non-2xx and sets me on 2xx; a rejected promise is
\* not handled.  The login handler's (App.tsx 1074-1087) reports non-2xx in
\* the form and sets me on 2xx.  Every setMe(u) runs the load effect
\* (App.tsx 424-427) and every setAuthToken(null) the auth effect
\* (App.tsx 382-386).
FetchMeDone(r, status) ==
  /\ UNCHANGED <<srvIssued, techVars, theme>>
  /\ pc = "idle" /\ r \in pending.me
  /\ LET rest == [pending EXCEPT !.me = @ \ {r}]
     IN  IF status = 200
           THEN /\ me' = 1 /\ authToken' = authToken
                /\ localStorage' = localStorage
                /\ error' = NoError
                /\ pending' = WithLoad(rest, authToken, selectedGraphId, selectedUserId,
                                       NoAfter, 0)
                /\ authError' = authError
                /\ authLoading' = IF r.from = "login" THEN FALSE ELSE authLoading
           ELSE /\ IF r.from = "effect" /\ status # 0
                     THEN /\ me' = NULL /\ authToken' = NoToken
                          /\ localStorage' = setToken(localStorage, NoToken)
                     ELSE UNCHANGED <<me, authToken, localStorage>>
                /\ authError' = (IF r.from = "effect" THEN authError
                                 ELSE IF status = 0 THEN AuthFailedMsg ELSE NoProfileMsg)
                /\ authLoading' = IF r.from = "login" THEN FALSE ELSE authLoading
                /\ error' = error
                /\ pending' = rest
  /\ ev' = [Ev(IF status = 200 THEN "auth.ok"
               ELSE IF status = 0 THEN "auth.failed" ELSE "auth.rejected")
              EXCEPT !.status = status]
  /\ UNCHANGED <<ops, collVars, selVars, pickVars, searchQuery, viewVars, timerVars,
                 posStore, srvVars, pc, cur>>

\* The Login button in login mode up to its first await (App.tsx 1040-1064):
\* with both fields filled it posts the credentials to /auth/token
LoginClick(filled) ==
  /\ UNCHANGED <<srvIssued, techVars, theme, localStorage>>
  /\ pc = "idle" /\ me = NULL /\ ~authLoading
  /\ ops < MaxOps /\ ops' = ops + 1
  /\ IF filled
       THEN /\ authError' = NoError /\ authLoading' = TRUE
            /\ pending' = [pending EXCEPT !.login = @ \cup {[auth |-> apiFetch(NoToken)]}]
       ELSE /\ authError' = NoCredentialsMsg /\ authLoading' = FALSE
            /\ pending' = pending
  /\ ev' = Ev(IF filled THEN "login.start" ELSE "login.incomplete")
  /\ UNCHANGED <<collVars, selVars, authVars, pickVars, error, searchQuery, viewVars,
                 timerVars, posStore, srvVars, pc, cur>>

\* The login answer (App.tsx 1064-1074): the new token is stored and set, the
\* handler asks who-am-I, and so does the auth effect when authToken changed
LoginDone(r, a) ==
  /\ UNCHANGED <<srvIssued, techVars, theme>>
  /\ pc = "idle" /\ r \in pending.login
  /\ LET rest == [pending EXCEPT !.login = @ \ {r}]
     IN  IF a.status = 200
           THEN /\ localStorage' = setToken(localStorage, a.tok)
                /\ authToken' = a.tok
                /\ pending' = [rest EXCEPT !.me = @ \cup {MeRequest(a.tok, "login")}
                                 \cup (IF a.tok # authToken THEN {MeRequest(a.tok, "effect")}
                                       ELSE {})]
                /\ UNCHANGED <<authError, authLoading>>
           ELSE /\ UNCHANGED <<localStorage, authToken>>
                /\ authError' = (IF a.status = 0 THEN AuthFailedMsg ELSE LoginRejectedMsg)
                /\ authLoading' = FALSE
                /\ pending' = rest
  /\ ev' = [Ev(IF a.status = 200 THEN "login.ok" ELSE "login.rejected")
              EXCEPT !.status = a.status]
  /\ UNCHANGED <<ops, me, collVars, selVars, pickVars, error, searchQuery, viewVars,
                 timerVars, posStore, srvVars, pc, cur>>

\* The Logout button (App.tsx 1258-1269); the rebuild effect empties the view
LogoutKeepsData ==
  /\ UNCHANGED <<srvIssued, techVars, theme, authError, authLoading>>
  /\ pc = "idle" /\ me # NULL
  /\ ops < MaxOps /\ ops' = ops + 1
  /\ localStorage' = setToken(localStorage, NoToken)
  /\ authToken' = NoToken /\ me' = NULL
  /\ UNCHANGED <<collVars, selVars, viewVars>>
  /\ UNCHANGED <<pickVars, error, searchQuery, timerVars, posStore, pending, srvVars, pc, cur>>
  /\ ev' = Ev("logout")
Logout ==
  /\ UNCHANGED <<srvIssued, techVars, theme, authError, authLoading>>
  /\ pc = "idle" /\ me # NULL
  /\ ops < MaxOps /\ ops' = ops + 1
  /\ localStorage' = setToken(localStorage, NoToken)
  /\ authToken' = NoToken /\ me' = NULL
  /\ users' = <<>> /\ graphs' = <<>> /\ nodes' = <<>> /\ edges' = <<>>
  /\ selectedUserId' = NULL /\ selectedGraphId' = NULL
  /\ UNCHANGED <<pickVars, error, searchQuery, timerVars, posStore, pending, srvVars, pc, cur>>
  /\ Rebuild
  /\ ev' = Ev("logout")

\* The Reload button (App.tsx 1220)
ReloadClick ==
  /\ UNCHANGED <<srvIssued, techVars, sessVars>>
  /\ pc = "idle" /\ me # NULL
  /\ ops < MaxOps /\ ops' = ops + 1
  /\ error' = NoError
  /\ pending' = WithLoad(pending, authToken, selectedGraphId, selectedUserId, NoAfter, 0)
  /\ ev' = Ev("loadAll.start")
  /\ UNCHANGED <<collVars, selVars, authVars, pickVars, searchQuery, viewVars,
                 timerVars, posStore, srvVars, pc, cur>>

LoadRejectedPartial(r) ==
  /\ error' = LoadFailedMsg
  /\ users' = SrvUsersList
  /\ UNCHANGED <<graphs, nodes, edges, selVars, viewVars>>

\* loadAll's catch (App.tsx 419-421): one of the four requests was rejected
LoadRejected(r) ==
  /\ error' = LoadFailedMsg
  /\ UNCHANGED <<collVars, selVars, viewVars>>

\* loadAll after its await (App.tsx 412-418), with the rebuild effect
LoadResolved(r) ==
  /\ users' = SrvUsersList
  /\ graphs' = r.snapGraphs
  /\ nodes' = r.snapNodes
  /\ edges' = r.snapEdges
  /\ selectedUserId' = IF Len(SrvUsersList) > 0 /\ r.capUNull
                         THEN SrvUsersList[1].id ELSE selectedUserId
  /\ selectedGraphId' = IF Len(r.snapGraphs) > 0 /\ r.capGNull
                          THEN r.snapGraphs[1].id ELSE selectedGraphId
  /\ Rebuild

ListRequests == {"users", "graphs", "nodes", "edges"}

\* The answer to loadAll's requests; rejected are the requests that failed.
\* A load that changed a selection makes the load effect call loadAll again;
\* a load onConnect awaits hands over to onConnect first.
LoadAllDone(r, rejected) ==
  /\ UNCHANGED <<srvIssued, techVars, sessVars>>
  /\ pc = "idle" /\ r \in pending.load
  /\ UNCHANGED <<ops, authVars, pickVars, searchQuery, timerVars, posStore, srvVars>>
  /\ IF rejected = {} THEN LoadResolved(r) ELSE LoadRejected(r)
  /\ LET ok      == rejected = {}
         rest    == [pending EXCEPT !.load = @ \ {r}]
         changed == selVars' # selVars /\ me # NULL
     IN  IF r.after = NoAfter
           THEN /\ pc' = "idle" /\ cur' = NoCur
                /\ IF ok
                     THEN IF changed
                            THEN /\ error' = NoError
                                 /\ pending' = WithLoad(rest, authToken, selectedGraphId',
                                                        selectedUserId', NoAfter, 0)
                            ELSE /\ error' = error
                                 /\ pending' = rest
                     ELSE pending' = rest
           ELSE /\ pc' = "onConnect.after"
                /\ cur' = [NoCur EXCEPT !.msg = r.after, !.status = r.status,
                                        !.reload = changed]
                /\ pending' = rest
                /\ IF ok THEN error' = error ELSE TRUE
  /\ ev' = Ev(IF rejected = {} THEN "loadAll.resolved" ELSE "loadAll.rejected")

\* The JSON body of an answer whose status is not 2xx: an object with a
\* detail field, no array.  It is written as a one-element sequence so that
\* it can be compared with a list; its length is undefined (NonEmptyList)
ErrorBody == <<[detail |-> "error"]>>
\* What r.json() gives loadAll for one list request (App.tsx 406-409): the
\* body of the answer, whatever its status
Answered(name, failed, list) == IF name \in failed THEN ErrorBody ELSE list
\* u.length > 0 (App.tsx 417-418): the length of an object that is no
\* array is undefined, and undefined > 0 is false
NonEmptyList(body) == body # ErrorBody /\ Len(body) > 0
\* The collections the render reads as arrays (App.tsx 483, 490, 1289-1292):
\* with an object in one of them the render throws and React unmounts the
\* page; users is read only by createGraph (App.tsx 733)
RenderedLists == {"graphs", "nodes", "edges"}

\* The answer to loadAll's requests when all four were answered with a JSON
\* body and those in failed with a status that is not 2xx (App.tsx 405-418):
\* loadAll does not look at the status.  A load started by the load effect or
\* by the Reload button.
LoadAllAnswered(r, failed) ==
  /\ UNCHANGED <<srvIssued, techVars, sessVars>>
  /\ pc = "idle" /\ r \in pending.load /\ r.after = NoAfter
  /\ failed # {}
  /\ UNCHANGED <<ops, authVars, pickVars, searchQuery, timerVars, posStore, srvVars, cur>>
  /\ LET u == Answered("users", failed, SrvUsersList)
         g == Answered("graphs", failed, r.snapGraphs)
     IN  /\ users' = u
         /\ graphs' = g
         /\ nodes' = Answered("nodes", failed, r.snapNodes)
         /\ edges' = Answered("edges", failed, r.snapEdges)
         /\ selectedUserId' = IF NonEmptyList(u) /\ r.capUNull
                                THEN u[1].id ELSE selectedUserId
         /\ selectedGraphId' = IF NonEmptyList(g) /\ r.capGNull
                                 THEN g[1].id ELSE selectedGraphId
  /\ LET rest == [pending EXCEPT !.load = @ \ {r}]
     IN  IF failed \cap RenderedLists # {}
           THEN /\ pc' = "crashed"
                /\ UNCHANGED <<viewVars, error>>
                /\ pending' = rest
           ELSE /\ pc' = "idle"
                /\ Rebuild
                /\ IF selVars' # selVars /\ me # NULL
                     THEN /\ error' = NoError
                          /\ pending' = WithLoad(rest, authToken, selectedGraphId',
                                                 selectedUserId', NoAfter, 0)
                     ELSE /\ error' = error
                          /\ pending' = rest
  /\ ev' = [Ev("loadAll.answered") EXCEPT !.ids = failed]

\* The graph select (App.tsx 1282-1288), with the rebuild and load effects
SelectGraph(g) ==
  /\ UNCHANGED <<srvIssued, techVars, sessVars>>
  /\ pc = "idle" /\ me # NULL
  /\ g \in Ids(graphs) /\ g # selectedGraphId
  /\ ops < MaxOps /\ ops' = ops + 1
  /\ selectedGraphId' = g
  /\ searchQuery' = <<>>
  /\ UNCHANGED <<collVars, selectedUserId, authVars, pickVars, timerVars,
                 posStore, srvVars, pc, cur>>
  /\ Rebuild
  /\ error' = NoError
  /\ pending' = WithLoad(pending, authToken, g, selectedUserId, NoAfter, 0)
  /\ ev' = Ev("graph.select")

\* ReactFlow's onSelectionChange (App.tsx 1448-1451)
SelectionChange(ns, es) ==
  /\ UNCHANGED <<srvIssued, techVars, sessVars>>
  /\ pc = "idle" /\ me # NULL
  /\ <<ns, es>> # <<selectedNodeIds, selectedEdgeIds>>
  /\ ops < MaxOps /\ ops' = ops + 1
  /\ selectedNodeIds' = ns
  /\ selectedEdgeIds' = es
  /\ ev' = Ev("selection")
  /\ UNCHANGED <<collVars, selVars, authVars, error, searchQuery, viewVars,
                 timerVars, posStore, pending, srvVars, pc, cur>>

-----------------------------------------------------------------------------
\* onConnect (App.tsx 617-682)

addEdgeNothing(s, t, eds) == eds

\* reactflow's addEdge as called at App.tsx 630-639: the connection gets a
\* generated id and is appended unless an edge with the same source and
\* target is already there
addEdge(s, t, eds) ==
  IF \E i \in 1..Len(eds) : eds[i].source = s /\ eds[i].target = t THEN eds
  ELSE Append(eds, [id |-> ProvId(s, t), source |-> s, target |-> t, label |-> <<>>,
                    stroke |-> edgeStroke("positive"), dimmed |-> FALSE])

\* up to the request: the banner is cleared and the edge drawn
OnConnectAdd(s, t) ==
  /\ UNCHANGED <<srvIssued, techVars, sessVars>>
  /\ pc = "idle" /\ me # NULL
  /\ ops < MaxOps /\ ops' = ops + 1
  /\ IF authToken = NoToken
       THEN /\ error' = NotAuthMsg
            /\ UNCHANGED <<rfEdges, pc, cur>>
       ELSE /\ error' = NoError
            /\ rfEdges' = addEdge(s, t, rfEdges)
            /\ pc' = "onConnect.send"
            /\ cur' = [NoCur EXCEPT !.source = Num(s), !.target = Num(t)]
  /\ ev' = Ev("onConnect.add")
  /\ UNCHANGED <<collVars, selVars, authVars, pickVars, searchQuery, rfNodes,
                 timerVars, posStore, pending, srvVars>>

\* The backend's answers to POST /edges/: created, duplicate (409), another
\* error status, or no answer at all (status 0: the request throws)
CreateAnswers(s, t) ==
  {[status |-> 500, body |-> "error", edge |-> NoEdge],
   [status |-> 0, body |-> "", edge |-> NoEdge]}
  \cup (IF \E e \in srvEdges : e.from_node_id = s /\ e.to_node_id = t
          THEN {[status |-> 409, body |-> "exists", edge |-> NoEdge]}
          ELSE IF {s, t} \subseteq srvNodes
                 THEN {[status |-> 201, body |-> "",
                        edge |-> EdgeRec(srvNextEdgeId, s, t, "positive", <<>>)]}
                 ELSE {})

\* the request (App.tsx 642-653)
OnConnectSend ==
  /\ UNCHANGED <<srvIssued, techVars, sessVars>>
  /\ pc = "onConnect.send"
  /\ \E res \in CreateAnswers(cur.source, cur.target) :
       /\ pending' = [pending EXCEPT !.connect = @ \cup
                        {[source |-> cur.source, target |-> cur.target, res |-> res,
                          tok |-> authToken, auth |-> apiFetch(authToken),
                          capG |-> selectedGraphId, capU |-> selectedUserId]}]
       /\ IF res.status = 201
            THEN /\ srvEdges' = srvEdges \cup {res.edge}
                 /\ srvNextEdgeId' = srvNextEdgeId + 1
            ELSE UNCHANGED <<srvEdges, srvNextEdgeId>>
  /\ pc' = "idle" /\ cur' = NoCur
  /\ ev' = Ev("onConnect.send")
  /\ UNCHANGED <<ops, collVars, selVars, authVars, pickVars, error, searchQuery,
                 viewVars, timerVars, posStore, srvNodes>>

ConnectCreatedNoReplace(r) ==
  /\ edges' = Append(edges, r.res.edge)
  /\ UNCHANGED <<users, graphs, nodes, selVars, searchQuery, posStore, viewVars>>
  /\ error' = error
  /\ pending' = [pending EXCEPT !.connect = @ \ {r}]

\* success (App.tsx 662-675): the created edge is appended; setEdges makes
\* the rebuild effect run, whose setRfEdges comes after the handler's own
ConnectCreated(r) ==
  /\ edges' = Append(edges, r.res.edge)
  /\ UNCHANGED <<users, graphs, nodes, selVars, searchQuery, posStore>>
  /\ Rebuild
  /\ error' = error
  /\ pending' = [pending EXCEPT !.connect = @ \ {r}]

\* failure (App.tsx 655-660, 676-679): loadAll is called and awaited
ConnectFailed(r) ==
  LET after == IF r.res.status = 0 THEN ConnectNetworkMsg
               ELSE ConnectFailMessage(r.res.status, r.res.body)
      rest  == [pending EXCEPT !.connect = @ \ {r}]
  IN  /\ UNCHANGED <<collVars, selVars, searchQuery, posStore, viewVars>>
      /\ error' = IF r.tok = NoToken THEN after ELSE NoError
      /\ pending' = WithLoad(rest, r.tok, r.capG, r.capU, after, r.res.status)

ConnectDoneUnlessListed(r) ==
  /\ UNCHANGED <<srvIssued, techVars, sessVars>>
  /\ pc = "idle" /\ r \in pending.connect
  /\ IF r.res.status # 201 THEN ConnectFailed(r)
     ELSE IF \E i \in 1..Len(edges) : edges[i].id = r.res.edge.id
       THEN /\ UNCHANGED <<collVars, selVars, searchQuery, posStore, viewVars, error>>
            /\ pending' = [pending EXCEPT !.connect = @ \ {r}]
       ELSE ConnectCreated(r)
  /\ ev' = [Ev(IF r.res.status = 201 THEN "onConnect.created" ELSE "onConnect.reload")
              EXCEPT !.status = r.res.status, !.edge = r.res.edge]
  /\ UNCHANGED <<ops, authVars, pickVars, timerVars, srvVars, pc, cur>>
ConnectDone(r) ==
  /\ UNCHANGED <<srvIssued, techVars, sessVars>>
  /\ pc = "idle" /\ r \in pending.connect
  /\ IF r.res.status = 201 THEN ConnectCreated(r) ELSE ConnectFailed(r)
  /\ ev' = [Ev(IF r.res.status = 201 THEN "onConnect.created" ELSE "onConnect.reload")
              EXCEPT !.status = r.res.status, !.edge = r.res.edge]
  /\ UNCHANGED <<ops, authVars, pickVars, timerVars, srvVars, pc, cur>>

\* after the awaited loadAll: the message of the failure
OnConnectAfter ==
  /\ UNCHANGED <<srvIssued, techVars, sessVars>>
  /\ pc = "onConnect.after"
  /\ IF cur.reload
       THEN /\ error' = NoError
            /\ pending' = WithLoad(pending, authToken, selectedGraphId,
                                   selectedUserId, NoAfter, 0)
       ELSE /\ error' = cur.msg
            /\ pending' = pending
  /\ pc' = "idle" /\ cur' = NoCur
  /\ ev' = [Ev("onConnect.failed") EXCEPT !.status = cur.status]
  /\ UNCHANGED <<ops, collVars, selVars, authVars, pickVars, searchQuery, viewVars,
                 timerVars, posStore, srvVars>>

-----------------------------------------------------------------------------
\* onEdgeDoubleClick (App.tsx 684-711) with updateEdgeBackend (587-605): the
\* type is changed in the local edges and in the view before the PUT is sent
typeOf(es, id) ==
  IF \E i \in 1..Len(es) : es[i].id = id
    THEN es[CHOOSE i \in 1..Len(es) : es[i].id = id /\ \A j \in 1..(i - 1) : es[j].id # id].edge_type
    ELSE "positive"

cycleEdge(es, id) ==
  LET nextType == nextEdgeType(typeOf(es, id))
      Up(e) == IF e.id = id THEN [e EXCEPT !.edge_type = nextType] ELSE e
  IN  Map(es, Up)

onEdgeDoubleClick(rfEdge) ==
  /\ UNCHANGED <<srvIssued, techVars, sessVars>>
  /\ pc = "idle" /\ me # NULL
  /\ ops < MaxOps /\ ops' = ops + 1
  /\ UNCHANGED <<users, graphs, nodes, selVars, authVars, pickVars, searchQuery,
                 timerVars, posStore, srvNodes, srvNextEdgeId, pc, cur>>
  /\ LET id == Num(rfEdge.id) IN
     IF ~IsFinite(id)
       THEN /\ UNCHANGED <<edges, viewVars, error, pending, srvEdges>>
            /\ ev' = [Ev("onEdgeDoubleClick.ignored") EXCEPT !.ids = {id}]
       ELSE /\ edges' = cycleEdge(edges, id)
            /\ Rebuild
            /\ ev' = [Ev("onEdgeDoubleClick") EXCEPT !.ids = {id}]
            /\ IF authToken = NoToken
                 THEN /\ error' = EdgeNotSavedMsg
                      /\ UNCHANGED <<pending, srvEdges>>
                 ELSE /\ error' = error
                      /\ \E ok \in BOOLEAN :
                           LET ty == nextEdgeType(typeOf(edges, id)) IN
                           /\ pending' = [pending EXCEPT !.upd = @ \cup
                                            {[auth |-> apiFetch(authToken), id |-> id, patch |-> "edge_type",
                                              edge_type |-> ty, label |-> <<>>,
                                              ok |-> ok]}]
                           /\ srvEdges' = IF ok
                                THEN {IF e.id = id THEN [e EXCEPT !.edge_type = ty] ELSE e
                                        : e \in srvEdges}
                                ELSE srvEdges

\* the PUT's answer
EdgeUpdateDone(r) ==
  /\ UNCHANGED <<srvIssued, techVars, sessVars>>
  /\ pc = "idle" /\ r \in pending.upd
  /\ pending' = [pending EXCEPT !.upd = @ \ {r}]
  /\ error' = IF r.ok THEN error
               ELSE IF r.patch = "label" THEN LabelNotSavedMsg ELSE EdgeNotSavedMsg
  /\ ev' = Ev(IF r.ok THEN "updateEdgeBackend.ok"
              ELSE IF r.patch = "label" THEN "updateEdgeBackend.label.failed"
              ELSE "updateEdgeBackend.failed")
  /\ UNCHANGED <<ops, collVars, selVars, authVars, pickVars, searchQuery, viewVars,
                 timerVars, posStore, srvVars, pc, cur>>

-----------------------------------------------------------------------------
\* Deleting the selection (App.tsx 430-478)

\* The backend's answers to one DELETE per id: deleted ("ok"), an error
\* status ("status") or no answer ("throw")
DeleteAnswers(ids, existing) ==
  {out \in [ids -> {"ok", "status", "throw"}] :
     \A i \in ids : out[i] = "ok" => i \in existing}
Deleted(r) == {i \in r.ids : r.out[i] = "ok"}

\* deleteEdgesById / deleteNodesById up to the await (App.tsx 433, 442);
\* press tells the key presses apart, afterEdges are the edges the same key
\* press deleted first
SendDelete(p, kind, ids, thenNodes, afterEdges, press) ==
  \E out \in DeleteAnswers(ids, IF kind = "edges" THEN {e.id : e \in srvEdges}
                                ELSE srvNodes) :
    LET r    == [auth |-> fetch, kind |-> kind, ids |-> ids, out |-> out, thenNodes |-> thenNodes,
                 afterEdges |-> afterEdges, press |-> press]
        gone == Deleted(r)
    IN  /\ pending' = [p EXCEPT !.del = @ \cup {r}]
        /\ IF kind = "edges"
             THEN /\ srvEdges' = {e \in srvEdges : e.id \notin gone}
                  /\ srvNodes' = srvNodes
             ELSE /\ srvNodes' = srvNodes \ gone
                  /\ srvEdges' = {e \in srvEdges : e.from_node_id \notin gone
                                                   /\ e.to_node_id \notin gone}

\* isTypingInEditableElement (App.tsx 447-452)
isTypingInEditableElementInputOnly(target) ==
  target.html /\ target.tag = "INPUT"
isTypingInEditableElement(target) ==
  IF ~target.html THEN FALSE
  ELSE target.tag \in {"INPUT", "TEXTAREA", "SELECT"} \/ target.editable

onKeyDownNodesFirst(target, key) ==
  /\ UNCHANGED <<srvIssued, techVars, sessVars>>
  /\ pc = "idle"
  /\ UNCHANGED <<collVars, selVars, authVars, pickVars, error, searchQuery,
                 viewVars, timerVars, posStore, srvNextEdgeId, pc, cur>>
  /\ IF isTypingInEditableElement(target) \/ key \notin {"Backspace", "Delete"}
       THEN /\ UNCHANGED <<pending, srvNodes, srvEdges, ops>>
            /\ ev' = [Ev("onKeyDown.ignored") EXCEPT !.key = key, !.target = target]
       ELSE IF selectedEdgeIds = {} /\ selectedNodeIds = {}
       THEN UNCHANGED <<pending, srvNodes, srvEdges, ev, ops>>
       ELSE /\ ops < MaxOps /\ ops' = ops + 1
            /\ IF selectedNodeIds # {}
                 THEN SendDelete(pending, "nodes", selectedNodeIds, {},
                                 selectedEdgeIds, ops + 1)
                 ELSE SendDelete(pending, "edges", selectedEdgeIds, {}, {}, ops + 1)
            /\ ev' = [Ev("onKeyDown") EXCEPT !.key = key, !.target = target]

\* the key handler up to its first await (App.tsx 455-468)
onKeyDown(target, key) ==
  /\ UNCHANGED <<srvIssued, techVars, sessVars>>
  /\ pc = "idle"
  /\ UNCHANGED <<collVars, selVars, authVars, pickVars, error, searchQuery,
                 viewVars, timerVars, posStore, srvNextEdgeId, pc, cur>>
  /\ IF isTypingInEditableElement(target) \/ key \notin {"Backspace", "Delete"}
       THEN /\ UNCHANGED <<pending, srvNodes, srvEdges, ops>>
            /\ ev' = [Ev("onKeyDown.ignored") EXCEPT !.key = key, !.target = target]
       ELSE IF selectedEdgeIds = {} /\ selectedNodeIds = {}
       THEN UNCHANGED <<pending, srvNodes, srvEdges, ev, ops>>
       ELSE /\ ops < MaxOps /\ ops' = ops + 1
            /\ IF selectedEdgeIds # {}
                 THEN SendDelete(pending, "edges", selectedEdgeIds, selectedNodeIds,
                                 {}, ops + 1)
                 ELSE SendDelete(pending, "nodes", selectedNodeIds, {}, {}, ops + 1)
            /\ ev' = [Ev("onKeyDown") EXCEPT !.key = key, !.target = target]

PruneEdgesOnlyDeleted(r) ==
  /\ edges' = LET Keep(e) == e.id \notin Deleted(r) IN Filter(edges, Keep)
  /\ UNCHANGED <<users, graphs, nodes>>

\* the local state after the awaits (App.tsx 435-436, 444)
PruneEdges(r) ==
  /\ edges' = LET Keep(e) == e.id \notin r.ids IN Filter(edges, Keep)
  /\ UNCHANGED <<users, graphs, nodes>>
PruneNodesNoCascade(r) ==
  /\ nodes' = LET Keep(n) == n.id \notin r.ids IN Filter(nodes, Keep)
  /\ UNCHANGED <<users, graphs, edges>>

PruneNodes(r) ==
  /\ edges' = LET Keep(e) == e.from_node_id \notin r.ids /\ e.to_node_id \notin r.ids
              IN  Filter(edges, Keep)
  /\ nodes' = LET Keep(n) == n.id \notin r.ids IN Filter(nodes, Keep)
  /\ UNCHANGED <<users, graphs>>

\* Promise.all of a batch rejects when a request throws
Rejects(r) == \E i \in r.ids : r.out[i] = "throw"

\* The batch has settled: the prune, onKeyDown's selection reset and, after
\* an edge batch, the pending node deletion
DeleteSettled(r) ==
  /\ UNCHANGED <<srvIssued, techVars, sessVars>>
  /\ pc = "idle" /\ r \in pending.del
  /\ pending' = [pending EXCEPT !.del = @ \ {r}]
  /\ UNCHANGED <<ops, selVars, authVars, searchQuery, timerVars, posStore, srvVars>>
  /\ IF Rejects(r)
       THEN /\ error' = DeleteFailedMsg
            /\ UNCHANGED <<collVars, pickVars, viewVars, pc, cur>>
            /\ ev' = [Ev(IF r.kind = "edges" THEN "deleteEdgesById.failed"
                          ELSE "deleteNodesById.failed") EXCEPT !.ids = r.ids]
       ELSE /\ error' = error
            /\ IF r.kind = "edges"
                 THEN /\ PruneEdges(r)
                      /\ selectedEdgeIds' = {}
                      /\ selectedNodeIds' = selectedNodeIds
                      /\ IF r.thenNodes # {}
                           THEN /\ pc' = "onKeyDown.nodes"
                                /\ cur' = [NoCur EXCEPT !.ids = r.thenNodes,
                                                        !.edgeIds = r.ids,
                                                        !.status = r.press]
                           ELSE UNCHANGED <<pc, cur>>
                      /\ ev' = [Ev("deleteEdgesById.done") EXCEPT !.ids = r.ids]
                 ELSE /\ PruneNodes(r)
                      /\ selectedNodeIds' = {}
                      /\ selectedEdgeIds' = selectedEdgeIds
                      /\ UNCHANGED <<pc, cur>>
                      /\ ev' = [Ev("deleteNodesById.done") EXCEPT !.ids = r.ids]
            /\ Rebuild

\* onKeyDown goes on to the selected nodes (App.tsx 467-470)
onKeyDownNodes ==
  /\ UNCHANGED <<srvIssued, techVars, sessVars>>
  /\ pc = "onKeyDown.nodes"
  /\ SendDelete(pending, "nodes", cur.ids, {}, cur.edgeIds, cur.status)
  /\ pc' = "idle" /\ cur' = NoCur
  /\ ev' = Ev("onKeyDown.nodes")
  /\ UNCHANGED <<ops, collVars, selVars, authVars, pickVars, error, searchQuery,
                 viewVars, timerVars, posStore, srvNextEdgeId>>

-----------------------------------------------------------------------------
\* The editor after start: a stored token, the who-am-I request in flight,
\* positions saved for every technique in an earlier session.
SavedPos(n) == Pos(100 * n, 100)
SavedStore ==
  [g \in GraphIds |->
     JsonStringify([k \in {Str(n) : n \in {m \in NodeIds : GraphOf(m) = g}} |->
                      SavedPos(k.a)])]
\* the backend's edges at start: one inside graph 1 and one that leaves it
InitEdges == {EdgeRec(1, 1, 2, "positive", <<>>), EdgeRec(2, 2, 3, "neutral", <<>>)}

\* the technique panel is closed; the backend has a note for technique 1,
\* with steps and no video
\* a field that is null or missing in an answer's JSON
NullField == "null"
NoTech == [present |-> FALSE, video_url |-> NullField, steps |-> NullField]
Tech(v, st) == [present |-> TRUE, video_url |-> v, steps |-> st]
InitSrvTech == [n \in NodeIds |-> IF n = 1 THEN Tech(NullField, "s1") ELSE NoTech]
\* The session after the first render: the token was read from storage into
\* authToken (App.tsx 287), the light theme was chosen and written back
InitSession ==
  /\ theme = "light"
  /\ authError = NoError /\ authLoading = FALSE
  /\ localStorage = [token |-> "token", theme |-> "light"]

InitTech ==
  /\ isPanelOpen = FALSE /\ activeNodeId = NULL
  /\ techVideoUrl = "" /\ techSteps = ""
  /\ techniqueSaveTimer = NULL /\ techTimers = {}
  /\ srvTech = InitSrvTech

InitReact ==
  /\ InitTech
  /\ users = <<>> /\ graphs = <<>> /\ nodes = <<>> /\ edges = <<>>
  /\ selectedUserId = NULL /\ selectedGraphId = NULL
  /\ error = NoError
  /\ selectedNodeIds = {} /\ selectedEdgeIds = {}
  /\ searchQuery = <<>>
  /\ rfNodes = <<>> /\ rfEdges = <<>>
  /\ saveTimer = NULL /\ timers = {} /\ now = 0 /\ log = <<>>
  /\ cur = NoCur /\ ev = Ev("init") /\ ops = 0
InitClient == InitReact /\ InitSession /\ pc = "idle"

Init ==
  /\ InitClient
  /\ authToken = "token" /\ me = NULL
  /\ pending = [NoPending EXCEPT !.me = {MeRequest("token", "effect")}]
  /\ posStore = SavedStore
  /\ srvNodes = NodeIds
  /\ srvEdges = InitEdges
  /\ srvNextEdgeId = 3
  /\ srvIssued = {}

\* The page before its first effects have run: the state initialisers have
\* read the token and the theme from storage (App.tsx 287, 316-319)
InitTheme ==
  /\ InitReact /\ pc = "mount"
  /\ authToken = "token" /\ me = NULL
  /\ authError = NoError /\ authLoading = FALSE
  /\ \E saved \in SavedThemes :
       /\ localStorage = [token |-> "token", theme |-> saved]
       /\ theme = initialTheme(saved)
  /\ pending = NoPending
  /\ posStore = SavedStore
  /\ srvNodes = NodeIds /\ srvEdges = InitEdges /\ srvNextEdgeId = 3
  /\ srvIssued = {}

\* The effects of the first render: the theme effect writes the theme back
\* (App.tsx 321-324), the auth effect asks who-am-I (App.tsx 381-397)
ThemeMount ==
  /\ pc = "mount" /\ pc' = "idle"
  /\ localStorage' = [localStorage EXCEPT !.theme = theme]
  /\ pending' = [pending EXCEPT !.me = @ \cup (IF authToken = NoToken THEN {}
                                                ELSE {MeRequest(authToken, "effect")})]
  /\ ev' = Ev("mount")
  /\ UNCHANGED <<collVars, selVars, authVars, pickVars, error, searchQuery, viewVars,
                 timerVars, posStore, srvVars, srvIssued, techVars, theme,
                 authError, authLoading, cur, ops>>

RenderedNodeIds == {rfNodes[i].id : i \in 1..Len(rfNodes)}

Next ==
  \/ \E r \in pending.me, status \in MeStatuses : FetchMeDone(r, status)
  \/ ReloadClick
  \/ \E r \in pending.load, rejected \in {{}, {"nodes"}, ListRequests} : LoadAllDone(r, rejected)
  \/ \E g \in GraphIds : SelectGraph(g)
  \/ \E ns \in SUBSET ({Num(rfNodes[i].id) : i \in 1..Len(rfNodes)}),
        es \in SUBSET ({Num(rfEdges[i].id) : i \in 1..Len(rfEdges)}) :
       SelectionChange(ns, es)
  \/ \E s, t \in RenderedNodeIds : s # t /\ OnConnectAdd(s, t)
  \/ OnConnectSend
  \/ \E r \in pending.connect : ConnectDone(r)
  \/ OnConnectAfter
  \/ onKeyDown(Canvas, "Delete")
  \/ \E r \in pending.del : DeleteSettled(r)
  \/ onKeyDownNodes
  \/ \E i \in 1..Len(rfEdges) : onEdgeDoubleClick(rfEdges[i])
  \/ \E r \in pending.upd : EdgeUpdateDone(r)

Spec == Init /\ [][Next]_vars

-----------------------------------------------------------------------------
\* Position persistence: node changes and the debounced save
\* (App.tsx 552-578), the search box (App.tsx 1355-1359)

SaveDelay == 200                  \* the delay of the save timer, in ms
Delays == {100}                   \* how far the clock moves in one step
DragPositions == {Pos(10, 20), Pos(30, 40)}
SearchQueries == {<<>>, <<"K", "i", " ">>}

\* one change of a node-change event: a position change of node id, or a
\* change that moves nothing (selection, dimensions)
NoChange == [id |-> Str(NULL), position |-> Pos(0, 0), moves |-> FALSE]
NodeChanges ==
  {NoChange} \cup {[id |-> i, position |-> p, moves |-> TRUE] :
                     i \in RenderedNodeIds, p \in DragPositions}

\* onNodesChangeBase: React Flow applies the change to rfNodes
applyNodeChanges(c, ns) ==
  [i \in 1..Len(ns) |->
     IF c.moves /\ ns[i].id = c.id THEN [ns[i] EXCEPT !.position = c.position]
     ELSE ns[i]]

IsEvent(e) == e.kind = "event"
Min(S) == CHOOSE m \in S : \A k \in S : m <= k

clearTimeout(ts, id) == {t \in ts : t.id # id}
\* window.setTimeout: the callback belongs to the render of the event, g is
\* the selectedGraphId its persistPositions was created with
setTimeout(ts, id, g, delay) == ts \cup {[id |-> id, due |-> now + delay, g |-> g]}

onNodesChangeNoClear(c) ==
  /\ UNCHANGED <<srvIssued, techVars, sessVars>>
  /\ pc = "idle" /\ me # NULL /\ rfNodes # <<>>
  /\ Len(SelectSeq(log, IsEvent)) < MaxEvents
  /\ rfNodes' = applyNodeChanges(c, rfNodes)
  /\ saveTimer' = saveTimer + 1
  /\ timers' = setTimeout(timers, saveTimer + 1, selectedGraphId, SaveDelay)
  /\ log' = Append(log, [kind |-> "event", at |-> now, g |-> selectedGraphId])
  /\ ev' = Ev("onNodesChange")
  /\ UNCHANGED <<collVars, selVars, authVars, pickVars, error, searchQuery, rfEdges,
                 now, posStore, pending, srvVars, pc, cur, ops>>

\* onNodesChange (App.tsx 565-578); timer ids count up from 1
onNodesChange(c) ==
  /\ UNCHANGED <<srvIssued, techVars, sessVars>>
  /\ pc = "idle" /\ me # NULL /\ rfNodes # <<>>
  /\ Len(SelectSeq(log, IsEvent)) < MaxEvents
  /\ rfNodes' = applyNodeChanges(c, rfNodes)
  /\ saveTimer' = saveTimer + 1
  /\ timers' = setTimeout(IF saveTimer # NULL THEN clearTimeout(timers, saveTimer)
                          ELSE timers,
                          saveTimer + 1, selectedGraphId, SaveDelay)
  /\ log' = Append(log, [kind |-> "event", at |-> now, g |-> selectedGraphId])
  /\ ev' = Ev("onNodesChange")
  /\ UNCHANGED <<collVars, selVars, authVars, pickVars, error, searchQuery, rfEdges,
                 now, posStore, pending, srvVars, pc, cur, ops>>

\* The save timer's callback (App.tsx 570-574): persistPositions of the
\* event's render is called with the rfNodes of now
SaveTimerFire(t) ==
  /\ UNCHANGED <<srvIssued, techVars, sessVars>>
  /\ pc = "idle"
  /\ t \in timers /\ t.due <= now
  /\ timers' = timers \ {t}
  /\ posStore' = persistPositions(posStore, t.g, rfNodes)
  /\ log' = Append(log, [kind |-> IF t.g = NULL THEN "skip" ELSE "write",
                         at |-> now, g |-> t.g])
  /\ ev' = Ev("saveTimer")
  /\ UNCHANGED <<collVars, selVars, authVars, pickVars, error, searchQuery, viewVars,
                 saveTimer, now, pending, srvVars, pc, cur, ops>>

\* Time passes, up to the next timer that is due; with no timer pending
\* nothing depends on the time, and the clock is left where it is
Tick(d) ==
  /\ UNCHANGED <<srvIssued, techVars, sessVars>>
  /\ pc = "idle"
  /\ now < MaxTime
  /\ timers # {}
  /\ \A t \in timers : t.due > now
  /\ now' = Min({now + d, MaxTime} \cup {t.due : t \in timers})
  /\ UNCHANGED <<collVars, selVars, authVars, pickVars, error, searchQuery, viewVars,
                 saveTimer, timers, log, posStore, pending, srvVars, pc, cur, ev, ops>>

\* The search input's onChange (App.tsx 1356-1359), with the rebuild effect
SetSearchQuery(q) ==
  /\ UNCHANGED <<srvIssued, techVars, sessVars>>
  /\ pc = "idle" /\ me # NULL
  /\ q # searchQuery
  /\ ops < MaxOps /\ ops' = ops + 1
  /\ searchQuery' = q
  /\ UNCHANGED <<collVars, selVars, authVars, pickVars, error, timerVars, posStore,
                 pending, srvVars, pc, cur>>
  /\ Rebuild
  /\ ev' = Ev("search")

\* The editor once the first loads are in: graph 1 is selected and rendered,
\* from saved positions and, for a technique added since they were saved,
\* from a random one
PartStore ==
  [SavedStore EXCEPT ![1] = JsonStringify([k \in {Str(1)} |-> SavedPos(1)])]
InitLoaded ==
  /\ srvNodes = NodeIds /\ srvEdges = InitEdges /\ srvNextEdgeId = 3
  /\ srvIssued = {} /\ InitSession
  /\ authToken = "token" /\ me = 1
  /\ users = SrvUsersList /\ graphs = SrvGraphsList
  /\ nodes = SrvNodesList(NodeIds) /\ edges = SrvEdgesList(InitEdges)
  /\ selectedUserId = 1 /\ selectedGraphId = 1
  /\ error = NoError
  /\ selectedNodeIds = {} /\ selectedEdgeIds = {}
  /\ searchQuery = <<>>
  /\ posStore \in {SavedStore, PartStore}
  /\ \E rnd \in [Unsaved(1, nodes, posStore) -> RandomPositions] :
       rfNodes = nextRfNodes(1, nodes, <<>>, posStore, rnd)
  /\ rfEdges = nextRfEdges(1, nodes, edges, <<>>)
  /\ saveTimer = NULL /\ timers = {} /\ now = 0 /\ log = <<>>
  /\ pending = NoPending
  /\ pc = "idle" /\ cur = NoCur /\ ev = Ev("loadAll.resolved") /\ ops = 0
InitPos == InitTech /\ InitLoaded

NextPos ==
  \/ \E c \in NodeChanges : onNodesChange(c)
  \/ \E t \in timers : SaveTimerFire(t)
  \/ \E d \in Delays : Tick(d)
  \/ \E q \in SearchQueries : SetSearchQuery(q)
  \/ \E g \in GraphIds : SelectGraph(g)
  \/ \E r \in pending.load, rejected \in {{}, ListRequests} : LoadAllDone(r, rejected)

SpecPos == InitPos /\ [][NextPos]_vars

-----------------------------------------------------------------------------
\* Position storage on its own: savePositions called with any position map
\* (App.tsx 142-147), read back by loadPositions and by the rebuild effect
PosMaps ==
  UNION {[S -> DragPositions] : S \in SUBSET {Str(n) : n \in NodeIds}}
NoStore == [g \in GraphIds |-> NoItem]

StoreSave(g, m) ==
  /\ UNCHANGED <<srvIssued, techVars, sessVars>>
  /\ pc = "idle" /\ me # NULL
  /\ ops < MaxOps /\ ops' = ops + 1
  /\ posStore' = savePositions(posStore, g, m)
  /\ log' = <<[kind |-> "save", at |-> now, g |-> g, map |-> m]>>
  /\ ev' = Ev("savePositions")
  /\ UNCHANGED <<collVars, selVars, authVars, pickVars, error, searchQuery, viewVars,
                 saveTimer, timers, now, pending, srvVars, pc, cur>>

InitStore ==
  /\ srvNodes = NodeIds /\ srvEdges = InitEdges /\ srvNextEdgeId = 3
  /\ srvIssued = {} /\ InitTech /\ InitSession
  /\ authToken = "token" /\ me = 1
  /\ users = SrvUsersList /\ graphs = SrvGraphsList
  /\ nodes = SrvNodesList(NodeIds) /\ edges = SrvEdgesList(InitEdges)
  /\ selectedUserId = 1 /\ selectedGraphId = 1
  /\ error = NoError
  /\ selectedNodeIds = {} /\ selectedEdgeIds = {}
  /\ searchQuery = <<>>
  /\ posStore \in {SavedStore, PartStore, NoStore}
  /\ \E rnd \in [Unsaved(1, nodes, posStore) -> RandomPositions] :
       rfNodes = nextRfNodes(1, nodes, <<>>, posStore, rnd)
  /\ rfEdges = nextRfEdges(1, nodes, edges, <<>>)
  /\ saveTimer = NULL /\ timers = {} /\ now = 0 /\ log = <<>>
  /\ pending = NoPending
  /\ pc = "idle" /\ cur = NoCur /\ ev = Ev("loadAll.resolved") /\ ops = 0

NextStore ==
  \/ \E g \in GraphIds, m \in PosMaps : StoreSave(g, m)
  \/ \E q \in SearchQueries : SetSearchQuery(q)
  \/ \E g \in GraphIds : SelectGraph(g)
  \/ \E r \in pending.load, rejected \in {{}, ListRequests} : LoadAllDone(r, rejected)

SpecStore == InitStore /\ [][NextStore]_vars

-----------------------------------------------------------------------------
\* createNode and createGraph (App.tsx 730-827)

\* what is typed in the name / title box when the button is clicked
NameInputs == {<<" ">>, <<" ", "X">>}
CreateRandomPositions == {Pos(160, 160), Pos(419, 300)}
StatusMsg(m, status, body) == [msg |-> m, status |-> status, body |-> body]

\* The backend's answers to POST /nodes/ and POST /graphs/: created with
\* the next free id, an error status, or no answer (status 0)
NextNodeId  == Cardinality(NodeIds) + Cardinality(Issued("node")) + 1
NextGraphId == Cardinality(GraphIds) + Cardinality(Issued("graph")) + 1
CreateNodeAnswers(name, g) ==
  {[status |-> 500, body |-> "error", rec |-> NodeRec(1)],
   [status |-> 0, body |-> "", rec |-> NodeRec(1)],
   [status |-> 201, body |-> "",
    rec |-> [id |-> NextNodeId, name |-> name, graph_id |-> g]]}
CreateGraphAnswers(u) ==
  {[status |-> 500, body |-> "error", rec |-> GraphRec(1)],
   [status |-> 0, body |-> "", rec |-> GraphRec(1)],
   [status |-> 201, body |-> "", rec |-> [id |-> NextGraphId, user_id |-> u]]}

\* createNode up to its await (App.tsx 774-801)
createNodeNoTrim(input) ==
  /\ pc = "idle" /\ me # NULL
  /\ ops < MaxOps /\ ops' = ops + 1
  /\ LET name == input
     IN  IF selectedGraphId = NULL \/ authToken = NoToken \/ name = <<>>
           THEN /\ error' = IF selectedGraphId = NULL THEN Msg("Select a graph first.")
                            ELSE IF authToken = NoToken THEN NotAuthMsg
                            ELSE Msg("Technique name cannot be empty.")
                /\ UNCHANGED <<pending, srvNodes, srvIssued>>
           ELSE /\ error' = NoError
                /\ \E res \in CreateNodeAnswers(name, selectedGraphId) :
                     /\ pending' = [pending EXCEPT !.createNode = @ \cup
                                      {[auth |-> apiFetch(authToken), res |-> res,
                                        g |-> selectedGraphId]}]
                     /\ IF res.status = 201
                          THEN /\ srvNodes' = srvNodes \cup {res.rec.id}
                               /\ srvIssued' = srvIssued \cup
                                                 {[k |-> "node", rec |-> res.rec]}
                          ELSE UNCHANGED <<srvNodes, srvIssued>>
  /\ ev' = [Ev("createNode") EXCEPT !.input = input]
  /\ UNCHANGED <<collVars, selVars, authVars, pickVars, searchQuery, viewVars,
                 timerVars, posStore, srvEdges, srvNextEdgeId, techVars, sessVars, pc, cur>>
createNode(input) ==
  /\ pc = "idle" /\ me # NULL
  /\ ops < MaxOps /\ ops' = ops + 1
  /\ LET name == Trim(input)
     IN  IF selectedGraphId = NULL \/ authToken = NoToken \/ name = <<>>
           THEN /\ error' = IF selectedGraphId = NULL THEN Msg("Select a graph first.")
                            ELSE IF authToken = NoToken THEN NotAuthMsg
                            ELSE Msg("Technique name cannot be empty.")
                /\ UNCHANGED <<pending, srvNodes, srvIssued>>
           ELSE /\ error' = NoError
                /\ \E res \in CreateNodeAnswers(name, selectedGraphId) :
                     /\ pending' = [pending EXCEPT !.createNode = @ \cup
                                      {[auth |-> apiFetch(authToken), res |-> res,
                                        g |-> selectedGraphId]}]
                     /\ IF res.status = 201
                          THEN /\ srvNodes' = srvNodes \cup {res.rec.id}
                               /\ srvIssued' = srvIssued \cup
                                                 {[k |-> "node", rec |-> res.rec]}
                          ELSE UNCHANGED <<srvNodes, srvIssued>>
  /\ ev' = [Ev("createNode") EXCEPT !.input = input]
  /\ UNCHANGED <<collVars, selVars, authVars, pickVars, searchQuery, viewVars,
                 timerVars, posStore, srvEdges, srvNextEdgeId, techVars, sessVars, pc, cur>>

CreateNodeFailedSilent(r) ==
  /\ error' = error
  /\ UNCHANGED <<collVars, viewVars, posStore>>

\* the failure paths (App.tsx 803-807, 824-826)
CreateNodeFailed(r) ==
  /\ error' = IF r.res.status = 0 THEN Msg("Failed to create node (network error)")
              ELSE StatusMsg("Failed to create node", r.res.status, r.res.body)
  /\ UNCHANGED <<collVars, viewVars, posStore>>

\* success (App.tsx 809-823): the node is appended; the setRfNodes updater
\* saves the rendered nodes plus the new one with the persistPositions of
\* the click's render (graph r.g); setNodes makes the rebuild effect run
CreateNodeCreated(r) ==
  /\ nodes' = Append(nodes, r.res.rec)
  /\ \E p \in CreateRandomPositions :
       posStore' = persistPositions(posStore, r.g,
                     Append(rfNodes, [id |-> Str(r.res.rec.id), label |-> r.res.rec.name,
                                      dimmed |-> FALSE, highlighted |-> FALSE,
                                      position |-> p]))
  /\ UNCHANGED <<users, graphs, edges, error>>
  /\ Rebuild

CreateNodeDone(r) ==
  /\ pc = "idle" /\ r \in pending.createNode
  /\ pending' = [pending EXCEPT !.createNode = @ \ {r}]
  /\ UNCHANGED <<selVars, authVars, pickVars, searchQuery, timerVars, srvVars,
                 srvIssued, techVars, sessVars, pc, cur, ops>>
  /\ IF r.res.status = 201 THEN CreateNodeCreated(r) ELSE CreateNodeFailed(r)
  /\ ev' = [Ev(IF r.res.status = 201 THEN "createNode.created" ELSE "createNode.failed")
              EXCEPT !.status = r.res.status, !.ids = {r.res.rec.id}]

\* createGraph up to its await (App.tsx 730-756)
createGraph(input) ==
  /\ pc = "idle" /\ me # NULL
  /\ ops < MaxOps /\ ops' = ops + 1
  /\ LET title  == Trim(input)
         userId == IF me # NULL THEN me
                   ELSE IF selectedUserId # NULL THEN selectedUserId
                   ELSE IF users # <<>> THEN users[1].id ELSE NULL
     IN  IF title = <<>> \/ userId = NULL \/ authToken = NoToken
           THEN /\ error' = IF title = <<>> THEN Msg("Graph title cannot be empty.")
                            ELSE IF userId = NULL
                              THEN Msg("No user available to attach the graph to.")
                            ELSE NotAuthMsg
                /\ UNCHANGED <<pending, srvIssued>>
           ELSE /\ error' = NoError
                /\ \E res \in CreateGraphAnswers(userId) :
                     /\ pending' = [pending EXCEPT !.createGraph = @ \cup
                                      {[auth |-> apiFetch(authToken), res |-> res]}]
                     /\ srvIssued' = IF res.status = 201
                                       THEN srvIssued \cup {[k |-> "graph", rec |-> res.rec]}
                                       ELSE srvIssued
  /\ ev' = [Ev("createGraph") EXCEPT !.input = input]
  /\ UNCHANGED <<collVars, selVars, authVars, pickVars, searchQuery, viewVars,
                 timerVars, posStore, srvVars, techVars, sessVars, pc, cur>>

\* createGraph after its await (App.tsx 758-770): on success the graph is
\* appended and selected, which runs the rebuild and the load effect
CreateGraphDone(r) ==
  /\ pc = "idle" /\ r \in pending.createGraph
  /\ IF r.res.status = 201
       THEN /\ graphs' = Append(graphs, r.res.rec)
            /\ selectedGraphId' = r.res.rec.id
            /\ UNCHANGED <<users, nodes, edges, selectedUserId, posStore, searchQuery>>
            /\ Rebuild
            /\ error' = IF r.res.rec.id # selectedGraphId THEN NoError ELSE error
            /\ pending' = IF r.res.rec.id # selectedGraphId
                            THEN WithLoad([pending EXCEPT !.createGraph = @ \ {r}],
                                          authToken, r.res.rec.id, selectedUserId,
                                          NoAfter, 0)
                            ELSE [pending EXCEPT !.createGraph = @ \ {r}]
       ELSE /\ error' = IF r.res.status = 0
                          THEN Msg("Failed to create graph (network error)")
                          ELSE StatusMsg("Failed to create graph", r.res.status, r.res.body)
            /\ pending' = [pending EXCEPT !.createGraph = @ \ {r}]
            /\ UNCHANGED <<collVars, selVars, viewVars, posStore, searchQuery>>
  /\ ev' = [Ev(IF r.res.status = 201 THEN "createGraph.created" ELSE "createGraph.failed")
              EXCEPT !.status = r.res.status, !.ids = {r.res.rec.id}]
  /\ UNCHANGED <<authVars, pickVars, timerVars, srvVars, srvIssued,
                 techVars, sessVars, pc, cur, ops>>

-----------------------------------------------------------------------------
\* groupNodesCenter (App.tsx 830-865)
spacing == 120
startX  == 200
startY  == 200

\* Math.ceil(Math.sqrt(n))
CeilSqrt(n) == CHOOSE c \in 0..n : c * c >= n /\ (c = 0 \/ (c - 1) * (c - 1) < n)

\* the grid position of the node at index (from 0) of nodeCount nodes
GridPosRowFirst(index, nodeCount) ==
  LET cols == CeilSqrt(nodeCount)
  IN  Pos(startX + (index \div cols) * spacing, startY + (index \div cols) * spacing)
GridPos(index, nodeCount) ==
  LET cols == CeilSqrt(nodeCount)
      row  == index \div cols
      col  == index % cols
  IN  Pos(startX + col * spacing, startY + row * spacing)

\* the handler, laying the nodes out from the last to the first
groupNodesCenterReversed ==
  /\ pc = "idle" /\ me # NULL
  /\ ops < MaxOps /\ ops' = ops + 1
  /\ IF selectedGraphId = NULL \/ Len(rfNodes) = 0
       THEN UNCHANGED <<rfNodes, posStore>>
       ELSE LET updatedNodes ==
                  [i \in 1..Len(rfNodes) |->
                     [rfNodes[Len(rfNodes) + 1 - i]
                        EXCEPT !.position = GridPos(i - 1, Len(rfNodes))]]
            IN  /\ rfNodes' = updatedNodes
                /\ posStore' = persistPositions(posStore, selectedGraphId, updatedNodes)
  /\ log' = Append(log, [kind |-> "group", at |-> now, g |-> selectedGraphId])
  /\ ev' = Ev("groupNodesCenter")
  /\ UNCHANGED <<collVars, selVars, authVars, pickVars, error, searchQuery, rfEdges,
                 saveTimer, timers, now, pending, srvVars, srvIssued, techVars, sessVars, pc, cur>>
\* the handler; the fitView it schedules moves the viewport only
groupNodesCenter ==
  /\ pc = "idle" /\ me # NULL
  /\ ops < MaxOps /\ ops' = ops + 1
  /\ IF selectedGraphId = NULL \/ Len(rfNodes) = 0
       THEN UNCHANGED <<rfNodes, posStore>>
       ELSE LET updatedNodes ==
                  [i \in 1..Len(rfNodes) |->
                     [rfNodes[i] EXCEPT !.position = GridPos(i - 1, Len(rfNodes))]]
            IN  /\ rfNodes' = updatedNodes
                /\ posStore' = persistPositions(posStore, selectedGraphId, updatedNodes)
  /\ log' = Append(log, [kind |-> "group", at |-> now, g |-> selectedGraphId])
  /\ ev' = Ev("groupNodesCenter")
  /\ UNCHANGED <<collVars, selVars, authVars, pickVars, error, searchQuery, rfEdges,
                 saveTimer, timers, now, pending, srvVars, srvIssued, techVars, sessVars, pc, cur>>

\* Creation and grouping from the loaded editor
NextCreate ==
  \/ \E input \in NameInputs : createNode(input)
  \/ \E r \in pending.createNode : CreateNodeDone(r)
  \/ \E input \in NameInputs : createGraph(input)
  \/ \E r \in pending.createGraph : CreateGraphDone(r)
  \/ groupNodesCenter
  \/ \E g \in Ids(graphs) : SelectGraph(g)
  \/ \E r \in pending.load, rejected \in {{}, ListRequests} : LoadAllDone(r, rejected)

SpecCreate == InitPos /\ [][NextCreate]_vars

-----------------------------------------------------------------------------
\* Technique panel (App.tsx 150-195, 349-379, 1439-1443, 1482-1563)

AutosaveDelay == 500
MaxTechOps    == 2
MaxTechTime   == 750
TechDelays    == {250}
Videos        == {"v1", "v2"}
StepsTexts    == {"s1", "s2"}

Draft(v, s) == [videoUrl |-> v, steps |-> s]
EmptyDraft  == Draft("", "")
IsOk(status) == status >= 200 /\ status < 300
\* x || "" on a field of the answer
OrEmpty(x) == IF x \in {NullField, ""} THEN "" ELSE x

\* The technique endpoint of the backend: one record per node; PUT updates
\* an existing record, POST creates a missing one
TechRec(srv, n) == IF n \in DOMAIN srv THEN srv[n] ELSE NoTech
TechStore(srv, n, body) ==
  [m \in DOMAIN srv \cup {n} |->
     IF m = n THEN Tech(body.video_url, body.steps) ELSE srv[m]]
TechGet(srv, n) ==
  IF TechRec(srv, n).present
    THEN [status |-> 200, srv |-> srv,
          body |-> [video_url |-> srv[n].video_url, steps |-> srv[n].steps]]
    ELSE [status |-> 404, srv |-> srv,
          body |-> [video_url |-> NullField, steps |-> NullField]]
TechPut(srv, n, body) ==
  IF TechRec(srv, n).present
    THEN [status |-> 200, srv |-> TechStore(srv, n, body), body |-> body]
    ELSE [status |-> 404, srv |-> srv, body |-> body]
TechPost(srv, n, body) ==
  IF TechRec(srv, n).present
    THEN [status |-> 409, srv |-> srv, body |-> body]
    ELSE [status |-> 201, srv |-> TechStore(srv, n, body), body |-> body]
\* a server error, and a request that throws
TechFailures(srv) ==
  {[status |-> st, srv |-> srv, body |-> [video_url |-> NullField, steps |-> NullField]] :
     st \in {500, 0}}

\* loadTechniqueDraft (App.tsx 150-165), from the answer to its GET
loadTechniqueDraft(res) ==
  IF ~IsOk(res.status) THEN EmptyDraft
  ELSE Draft(OrEmpty(res.body.video_url), OrEmpty(res.body.steps))

\* The body of both requests of saveTechniqueDraft (App.tsx 173-176, 186-189)
TechBodySwapped(draft) == [video_url |-> draft.steps, steps |-> draft.videoUrl]
TechBody(draft) == [video_url |-> draft.videoUrl, steps |-> draft.steps]

\* History of the panel: what was opened, edited and closed (the fields
\* shown) and which requests were sent (the fields of their body)
TechLog(kind, src, n, v, s, sid) ==
  [kind |-> kind, src |-> src, at |-> now, n |-> n, v |-> v, s |-> s, sid |-> sid]
IsPut(e) == e.kind = "PUT"
IsPanelEntry(e) == e.kind \in {"open", "edit", "close"}
NextSid == Len(SelectSeq(log, IsPut)) + 1

\* saveTechniqueDraft up to its first await (App.tsx 168-177): the PUT
saveTechniqueDraft(nodeId, draft, src) ==
  \E a \in {TechPut(srvTech, nodeId, TechBody(draft))} \cup TechFailures(srvTech) :
    /\ srvTech' = a.srv
    /\ pending' = [pending EXCEPT !.techSave = @ \cup
                     {[auth |-> fetch, sid |-> NextSid, n |-> nodeId, draft |-> draft,
                       method |-> "PUT", status |-> a.status]}]
    /\ log' = Append(log, TechLog("PUT", src, nodeId, TechBody(draft).video_url,
                                  TechBody(draft).steps, NextSid))

\* The autosave effect (App.tsx 363-379) after a render that changed one of
\* its dependencies: the cleanup of its previous run, then its body
AutosaveEffectNoClear ==
  IF panelVars' = panelVars THEN UNCHANGED <<techniqueSaveTimer, techTimers>>
  ELSE IF activeNodeId' = NULL \/ ~isPanelOpen'
         THEN UNCHANGED <<techniqueSaveTimer, techTimers>>
         ELSE /\ techniqueSaveTimer' = techniqueSaveTimer + 1
              /\ techTimers' = techTimers \cup
                   {[id |-> techniqueSaveTimer + 1, due |-> now + AutosaveDelay,
                     n |-> activeNodeId', draft |-> Draft(techVideoUrl', techSteps')]}
AutosaveEffect ==
  IF panelVars' = panelVars THEN UNCHANGED <<techniqueSaveTimer, techTimers>>
  ELSE LET cleaned == IF activeNodeId # NULL /\ isPanelOpen /\ techniqueSaveTimer # NULL
                        THEN clearTimeout(techTimers, techniqueSaveTimer)
                        ELSE techTimers
       IN  IF activeNodeId' = NULL \/ ~isPanelOpen'
             THEN /\ techniqueSaveTimer' = techniqueSaveTimer
                  /\ techTimers' = cleaned
             ELSE /\ techniqueSaveTimer' = techniqueSaveTimer + 1
                  /\ techTimers' =
                       (IF techniqueSaveTimer # NULL
                          THEN clearTimeout(cleaned, techniqueSaveTimer) ELSE cleaned)
                       \cup {[id |-> techniqueSaveTimer + 1, due |-> now + AutosaveDelay,
                              n |-> activeNodeId',
                              draft |-> Draft(techVideoUrl', techSteps')]}

techFrame == <<collVars, selVars, authVars, pickVars, error, searchQuery, viewVars,
               saveTimer, timers, posStore, srvVars, srvIssued, sessVars, pc, cur>>

\* onNodeDoubleClick (App.tsx 1439-1443) and openTechniquePanel up to its
\* await (App.tsx 349-350): the GET of loadTechniqueDraft
openTechniquePanel(id) ==
  /\ pc = "idle" /\ me # NULL
  /\ id \in RenderedNodeIds
  /\ IsFinite(Num(id))
  /\ ops < MaxTechOps /\ ops' = ops + 1
  /\ \E a \in {TechGet(srvTech, Num(id))} \cup TechFailures(srvTech) :
       pending' = [pending EXCEPT !.techLoad = @ \cup
                     {[auth |-> fetch, n |-> Num(id), status |-> a.status, body |-> a.body,
                       at |-> now]}]
  /\ ev' = Ev("openTechniquePanel")
  /\ UNCHANGED <<techFrame, techVars, now, log>>

\* openTechniquePanel after the await, opening the panel for a 2xx answer only
TechLoadDoneOkOnly(r) ==
  /\ pc = "idle" /\ r \in pending.techLoad
  /\ pending' = [pending EXCEPT !.techLoad = @ \ {r}]
  /\ IF IsOk(r.status)
       THEN /\ activeNodeId' = r.n
            /\ techVideoUrl' = loadTechniqueDraft(r).videoUrl
            /\ techSteps' = loadTechniqueDraft(r).steps
            /\ isPanelOpen' = TRUE
       ELSE UNCHANGED panelVars
  /\ AutosaveEffect
  /\ log' = Append(log, TechLog("open", "", r.n, techVideoUrl', techSteps', 0))
  /\ ev' = [Ev("openTechniquePanel.loaded") EXCEPT !.status = r.status, !.ids = {r.n}]
  /\ UNCHANGED <<techFrame, srvTech, now, ops>>

\* openTechniquePanel after the await (App.tsx 350-354), with the autosave
\* effect
TechLoadDone(r) ==
  /\ pc = "idle" /\ r \in pending.techLoad
  /\ pending' = [pending EXCEPT !.techLoad = @ \ {r}]
  /\ activeNodeId' = r.n
  /\ techVideoUrl' = loadTechniqueDraft(r).videoUrl
  /\ techSteps' = loadTechniqueDraft(r).steps
  /\ isPanelOpen' = TRUE
  /\ AutosaveEffect
  /\ log' = Append(log, TechLog("open", "", r.n, techVideoUrl', techSteps', 0))
  /\ ev' = [Ev("openTechniquePanel.loaded") EXCEPT !.status = r.status, !.ids = {r.n}]
  /\ UNCHANGED <<techFrame, srvTech, now, ops>>

IsEdit(e) == e.kind = "edit"
\* The video field's onChange (App.tsx 1491), with the autosave effect
setTechVideoUrl(v) ==
  /\ pc = "idle" /\ isPanelOpen
  /\ v # techVideoUrl
  /\ ops < MaxTechOps /\ ops' = ops + 1
  /\ techVideoUrl' = v
  /\ UNCHANGED <<isPanelOpen, activeNodeId, techSteps>>
  /\ AutosaveEffect
  /\ log' = Append(log, TechLog("edit", "", activeNodeId, v, techSteps, 0))
  /\ ev' = Ev("setTechVideoUrl")
  /\ UNCHANGED <<techFrame, srvTech, now, pending>>

\* The steps field's onChange (App.tsx 1532), with the autosave effect
setTechSteps(s) ==
  /\ pc = "idle" /\ isPanelOpen
  /\ s # techSteps
  /\ ops < MaxTechOps /\ ops' = ops + 1
  /\ techSteps' = s
  /\ UNCHANGED <<isPanelOpen, activeNodeId, techVideoUrl>>
  /\ AutosaveEffect
  /\ log' = Append(log, TechLog("edit", "", activeNodeId, techVideoUrl, s, 0))
  /\ ev' = Ev("setTechSteps")
  /\ UNCHANGED <<techFrame, srvTech, now, pending>>

\* closeTechniquePanel (App.tsx 357-360), with the autosave effect
closeTechniquePanel ==
  /\ pc = "idle" /\ isPanelOpen
  /\ ops < MaxTechOps /\ ops' = ops + 1
  /\ isPanelOpen' = FALSE
  /\ activeNodeId' = NULL
  /\ UNCHANGED <<techVideoUrl, techSteps>>
  /\ AutosaveEffect
  /\ log' = Append(log, TechLog("close", "", activeNodeId, techVideoUrl, techSteps, 0))
  /\ ev' = Ev("closeTechniquePanel")
  /\ UNCHANGED <<techFrame, srvTech, now, pending>>

\* The autosave timer's callback (App.tsx 368-374): the values are those of
\* the render that set the timer
TechTimerFire(t) ==
  /\ pc = "idle"
  /\ t \in techTimers /\ t.due <= now
  /\ techTimers' = techTimers \ {t}
  /\ saveTechniqueDraft(t.n, t.draft, "auto")
  /\ ev' = [Ev("techniqueSaveTimer") EXCEPT !.ids = {t.n}]
  /\ UNCHANGED <<techFrame, panelVars, techniqueSaveTimer, now, ops>>

\* The Save button of the panel (App.tsx 1551-1563)
SaveNow ==
  /\ pc = "idle" /\ isPanelOpen
  /\ ops < MaxTechOps /\ ops' = ops + 1
  /\ saveTechniqueDraft(activeNodeId, Draft(techVideoUrl, techSteps), "manual")
  /\ ev' = [Ev("saveNow") EXCEPT !.ids = {activeNodeId}]
  /\ UNCHANGED <<techFrame, panelVars, techniqueSaveTimer, techTimers, now>>

\* The test that leads to the POST (App.tsx 179-181)
NeedsCreateNotOk(status) == ~IsOk(status)
NeedsCreate(status) == ~IsOk(status) /\ status = 404

\* saveTechniqueDraft after the PUT (App.tsx 179-191): the POST on a 404
TechPutDone(r) ==
  /\ pc = "idle" /\ r \in pending.techSave /\ r.method = "PUT"
  /\ IF NeedsCreate(r.status)
       THEN \E a \in {TechPost(srvTech, r.n, TechBody(r.draft))} \cup TechFailures(srvTech) :
              /\ srvTech' = a.srv
              /\ pending' = [pending EXCEPT !.techSave = (@ \ {r}) \cup
                               {[r EXCEPT !.method = "POST", !.status = a.status]}]
              /\ log' = Append(log, TechLog("POST", "", r.n, TechBody(r.draft).video_url,
                                            TechBody(r.draft).steps, r.sid))
       ELSE /\ pending' = [pending EXCEPT !.techSave = @ \ {r}]
            /\ UNCHANGED <<srvTech, log>>
  /\ ev' = [Ev("saveTechniqueDraft.put") EXCEPT !.status = r.status, !.ids = {r.sid}]
  /\ UNCHANGED <<techFrame, panelVars, techniqueSaveTimer, techTimers, now, ops>>

\* saveTechniqueDraft after the POST (App.tsx 191-195): nothing is done with
\* the answer
TechPostDone(r) ==
  /\ pc = "idle" /\ r \in pending.techSave /\ r.method = "POST"
  /\ pending' = [pending EXCEPT !.techSave = @ \ {r}]
  /\ ev' = [Ev("saveTechniqueDraft.post") EXCEPT !.status = r.status, !.ids = {r.sid}]
  /\ UNCHANGED <<techFrame, techVars, now, log, ops>>

\* Time passes while an autosave timer is pending, up to the time it is due
TechTick(d) ==
  /\ pc = "idle"
  /\ now < MaxTechTime
  /\ techTimers # {}
  /\ \A t \in techTimers : t.due > now
  /\ now' = Min({now + d, MaxTechTime} \cup {t.due : t \in techTimers})
  /\ UNCHANGED <<techFrame, techVars, pending, log, ev, ops>>

\* The technique panel over the loaded editor: closed, or just opened on
\* technique 2, which has no note
InitPanel ==
  /\ InitLoaded
  /\ posStore = SavedStore
  /\ srvTech = InitSrvTech
  /\ techVideoUrl = "" /\ techSteps = ""
  /\ \/ /\ isPanelOpen = FALSE /\ activeNodeId = NULL
        /\ techniqueSaveTimer = NULL /\ techTimers = {}
     \/ /\ isPanelOpen = TRUE /\ activeNodeId = 2
        /\ techniqueSaveTimer = 1
        /\ techTimers = {[id |-> 1, due |-> AutosaveDelay, n |-> 2, draft |-> EmptyDraft]}

NextTech ==
  \/ \E id \in RenderedNodeIds : openTechniquePanel(id)
  \/ \E r \in pending.techLoad : TechLoadDone(r)
  \/ \E v \in Videos : setTechVideoUrl(v)
  \/ \E s \in StepsTexts : setTechSteps(s)
  \/ closeTechniquePanel
  \/ \E t \in techTimers : TechTimerFire(t)
  \/ \E r \in pending.techSave : TechPutDone(r)
  \/ \E r \in pending.techSave : TechPostDone(r)
  \/ \E d \in TechDelays : TechTick(d)

SpecTech == InitPanel /\ [][NextTech]_vars

-----------------------------------------------------------------------------
\* Search over a larger graph (App.tsx 493-503, 1355)

MaxNodes  == 20
ResultCap == 12
SearchInputs == {<<>>, <<" ">>, <<"K", "i", " ">>, <<" ", "a">>, <<"z">>}

\* Array.prototype.slice(0, n)
Take(s, n) == SubSeq(s, 1, IF Len(s) < n THEN Len(s) ELSE n)

\* searchResults (App.tsx 493-497)
searchResultsAllGraphs(q, ns, sg) ==
  LET qq == ToLower(Trim(q))
      Hit(n) == Includes(ToLower(n.name), qq)
  IN  IF qq = <<>> THEN <<>> ELSE Take(Filter(ns, Hit), ResultCap)
searchResults(q, ns, sg) ==
  LET qq == ToLower(Trim(q))
      Hit(n) == Includes(ToLower(n.name), qq)
  IN  IF qq = <<>> THEN <<>> ELSE Take(Filter(graphNodes(ns, sg), Hit), ResultCap)

\* techniques 4, 5, ... that were created after the first three: every
\* seventh is in graph 2, the others in graph 1
MoreNode(i) ==
  [id |-> i,
   name |-> IF i % 6 = 0 THEN <<"K", "i">>
            ELSE IF i % 2 = 1 THEN <<"k", "A">> ELSE <<"A", "r", "m">>,
   graph_id |-> IF i % 7 = 0 THEN 2 ELSE 1]
SearchStore(ns) ==
  [g \in GraphIds |->
     JsonStringify([k \in {Str(i) : i \in Ids(graphNodes(ns, g))} |-> SavedPos(k.a)])]

\* The loaded editor on a backend with n techniques, 3 <= n <= MaxNodes, all
\* with saved positions, and a third edge between techniques 1 and 4
InitSearch ==
  /\ InitTech /\ InitSession
  /\ \E n \in 3..MaxNodes :
       /\ srvNodes = 1..n
       /\ srvIssued = {[k |-> "node", rec |-> MoreNode(i)] : i \in 4..n}
       /\ srvEdges = InitEdges \cup (IF n >= 4 THEN {EdgeRec(3, 1, 4, "negative", <<>>)} ELSE {})
  /\ srvNextEdgeId = 4
  /\ authToken = "token" /\ me = 1
  /\ users = SrvUsersList /\ graphs = SrvGraphsList
  /\ nodes = SrvNodesList(srvNodes) /\ edges = SrvEdgesList(srvEdges)
  /\ selectedUserId = 1 /\ selectedGraphId = 1
  /\ error = NoError
  /\ selectedNodeIds = {} /\ selectedEdgeIds = {}
  /\ searchQuery = <<>>
  /\ posStore = SearchStore(nodes)
  /\ rfNodes = nextRfNodes(1, nodes, <<>>, posStore, EmptyMap)
  /\ rfEdges = nextRfEdges(1, nodes, edges, <<>>)
  /\ saveTimer = NULL /\ timers = {} /\ now = 0 /\ log = <<>>
  /\ pending = NoPending
  /\ pc = "idle" /\ cur = NoCur /\ ev = Ev("loadAll.resolved") /\ ops = 0

NextSearch ==
  \/ \E q \in SearchInputs : SetSearchQuery(q)
  \/ \E g \in Ids(graphs) : SelectGraph(g)
  \/ ReloadClick
  \/ \E r \in pending.load, rejected \in {{}, ListRequests} : LoadAllDone(r, rejected)

SpecSearch == InitSearch /\ [][NextSearch]_vars

-----------------------------------------------------------------------------
\* The label of the selected edge (App.tsx 336, 713-727, 1328-1340)

LabelDrafts == {<<" ", "g", "o">>, <<"x">>}

\* selectedEdgeId (App.tsx 336)
selectedEdgeId ==
  IF Cardinality(selectedEdgeIds) = 1 THEN CHOOSE e \in selectedEdgeIds : TRUE ELSE NULL

setLabel(es, id, label) ==
  LET Up(e) == IF e.id = id THEN [e EXCEPT !.label = label] ELSE e
  IN  Map(es, Up)

\* saveSelectedEdgeLabel with nothing kept from before the PUT
saveSelectedEdgeLabelLate(draft) ==
  /\ pc = "idle" /\ me # NULL
  /\ selectedEdgeId # NULL
  /\ ops < MaxOps /\ ops' = ops + 1
  /\ UNCHANGED <<users, graphs, nodes, selVars, authVars, pickVars, searchQuery,
                 timerVars, posStore, srvNodes, srvNextEdgeId, srvIssued, techVars, sessVars,
                 pc, cur>>
  /\ UNCHANGED <<edges, viewVars>>
  /\ ev' = Ev("saveSelectedEdgeLabel")
  /\ IF authToken = NoToken
       THEN /\ error' = LabelNotSavedMsg
            /\ UNCHANGED <<pending, srvEdges>>
       ELSE /\ error' = error
            /\ \E ok \in BOOLEAN :
                 /\ ok => \E e \in srvEdges : e.id = selectedEdgeId
                 /\ pending' = [pending EXCEPT !.upd = @ \cup
                                  {[auth |-> apiFetch(authToken), id |-> selectedEdgeId, patch |-> "label",
                                    edge_type |-> "positive", label |-> Trim(draft),
                                    ok |-> ok]}]
                 /\ srvEdges' = IF ok
                      THEN {IF e.id = selectedEdgeId THEN [e EXCEPT !.label = Trim(draft)]
                            ELSE e : e \in srvEdges}
                      ELSE srvEdges
\* saveSelectedEdgeLabel (App.tsx 713-727) with updateEdgeBackend (587-605)
\* and the rebuild effect: the label is changed in the local edges and in
\* the view before the PUT is sent; draft is what the label input holds
saveSelectedEdgeLabel(draft) ==
  /\ pc = "idle" /\ me # NULL
  /\ selectedEdgeId # NULL
  /\ ops < MaxOps /\ ops' = ops + 1
  /\ UNCHANGED <<users, graphs, nodes, selVars, authVars, pickVars, searchQuery,
                 timerVars, posStore, srvNodes, srvNextEdgeId, srvIssued, techVars, sessVars,
                 pc, cur>>
  /\ edges' = setLabel(edges, selectedEdgeId, Trim(draft))
  /\ Rebuild
  /\ ev' = Ev("saveSelectedEdgeLabel")
  /\ IF authToken = NoToken
       THEN /\ error' = LabelNotSavedMsg
            /\ UNCHANGED <<pending, srvEdges>>
       ELSE /\ error' = error
            /\ \E ok \in BOOLEAN :
                 /\ ok => \E e \in srvEdges : e.id = selectedEdgeId
                 /\ pending' = [pending EXCEPT !.upd = @ \cup
                                  {[auth |-> apiFetch(authToken), id |-> selectedEdgeId, patch |-> "label",
                                    edge_type |-> "positive", label |-> Trim(draft),
                                    ok |-> ok]}]
                 /\ srvEdges' = IF ok
                      THEN {IF e.id = selectedEdgeId THEN [e EXCEPT !.label = Trim(draft)]
                            ELSE e : e \in srvEdges}
                      ELSE srvEdges

\* Edge updates over the loaded editor
NextEdge ==
  \/ \E es \in SUBSET ({Num(rfEdges[i].id) : i \in 1..Len(rfEdges)}) :
       SelectionChange({}, es)
  \/ \E d \in LabelDrafts : saveSelectedEdgeLabel(d)
  \/ \E i \in 1..Len(rfEdges) : onEdgeDoubleClick(rfEdges[i])
  \/ \E r \in pending.upd : EdgeUpdateDone(r)
  \/ ReloadClick
  \/ \E r \in pending.load, rejected \in {{}, ListRequests} : LoadAllDone(r, rejected)

SpecEdge == InitPos /\ [][NextEdge]_vars

-----------------------------------------------------------------------------
\* The session: the stored token's check at start, login, logout, and the
\* loads a confirmed session starts
NextAuth ==
  \/ \E r \in pending.me, status \in MeStatuses : FetchMeDone(r, status)
  \/ \E filled \in BOOLEAN : LoginClick(filled)
  \/ \E r \in pending.login, a \in LoginAnswers : LoginDone(r, a)
  \/ Logout
  \/ \E r \in pending.load : LoadAllDone(r, {})

SpecAuth == Init /\ [][NextAuth]_vars

-----------------------------------------------------------------------------
\* The theme: the page from its first render on, the theme button, and
\* operations on graphs, edges and the session
NextTheme ==
  \/ ThemeMount
  \/ \E r \in pending.me, status \in MeStatuses : FetchMeDone(r, status)
  \/ \E r \in pending.load : LoadAllDone(r, {})
  \/ ToggleTheme
  \/ ReloadClick
  \/ \E g \in GraphIds : SelectGraph(g)
  \/ \E i \in 1..Len(rfEdges) : onEdgeDoubleClick(rfEdges[i])
  \/ \E r \in pending.upd : EdgeUpdateDone(r)
  \/ Logout

SpecTheme == InitTheme /\ [][NextTheme]_vars

-----------------------------------------------------------------------------
\* Edge types: the loaded editor in which an edge from technique 2 to
\* technique 1 has been drawn and its create request, which the backend has
\* answered with edge 3, is in flight; reloads and double clicks on edges
NewEdge == EdgeRec(3, 2, 1, "positive", <<>>)
InitCycle ==
  /\ InitTech /\ InitSession
  /\ srvNodes = NodeIds /\ srvEdges = InitEdges \cup {NewEdge} /\ srvNextEdgeId = 4
  /\ srvIssued = {}
  /\ authToken = "token" /\ me = 1
  /\ users = SrvUsersList /\ graphs = SrvGraphsList
  /\ nodes = SrvNodesList(NodeIds) /\ edges = SrvEdgesList(InitEdges)
  /\ selectedUserId = 1 /\ selectedGraphId = 1
  /\ error = NoError
  /\ selectedNodeIds = {} /\ selectedEdgeIds = {}
  /\ searchQuery = <<>>
  /\ posStore = SavedStore
  /\ \E rnd \in [Unsaved(1, nodes, posStore) -> RandomPositions] :
       rfNodes = nextRfNodes(1, nodes, <<>>, posStore, rnd)
  /\ rfEdges = addEdge(Str(2), Str(1), nextRfEdges(1, nodes, edges, <<>>))
  /\ saveTimer = NULL /\ timers = {} /\ now = 0 /\ log = <<>>
  /\ pending = [NoPending EXCEPT !.connect =
                  {[source |-> 2, target |-> 1,
                    res |-> [status |-> 201, body |-> "", edge |-> NewEdge],
                    tok |-> authToken, auth |-> apiFetch(authToken),
                    capG |-> 1, capU |-> 1]}]
  /\ pc = "idle" /\ cur = NoCur /\ ev = Ev("onConnect.send") /\ ops = 0

NextCycle ==
  \/ ReloadClick
  \/ \E r \in pending.load : LoadAllDone(r, {})
  \/ \E r \in pending.connect : ConnectDone(r)
  \/ \E i \in 1..Len(rfEdges) : onEdgeDoubleClick(rfEdges[i])
  \/ \E r \in pending.upd : EdgeUpdateDone(r)

SpecCycle == InitCycle /\ [][NextCycle]_vars

-----------------------------------------------------------------------------
\* The create forms from the first render on: before the first load is in,
\* with and without a token, with blank and with proper names
NextGuard ==
  \/ \E r \in pending.me, status \in MeStatuses : FetchMeDone(r, status)
  \/ \E r \in pending.load : LoadAllDone(r, {})
  \/ \E filled \in BOOLEAN : LoginClick(filled)
  \/ \E r \in pending.login, a \in LoginAnswers : LoginDone(r, a)
  \/ \E input \in NameInputs : createNode(input)
  \/ \E input \in NameInputs : createGraph(input)

SpecGuard == Init /\ [][NextGuard]_vars

-----------------------------------------------------------------------------
\* Drags and rebuilds of graph 1.  The browser runs a timer's callback once
\* its time has come, and time passes: both steps are taken when they stay
\* possible.
NextDrag ==
  \/ \E c \in NodeChanges : onNodesChange(c)
  \/ \E t \in timers : SaveTimerFire(t)
  \/ \E d \in Delays : Tick(d)
  \/ \E q \in SearchQueries : SetSearchQuery(q)

InitDrag == InitPos /\ posStore = SavedStore
SpecDrag ==
  /\ InitDrag /\ [][NextDrag]_vars
  /\ WF_vars(\E d \in Delays : Tick(d))
  /\ WF_vars(\E t \in timers : SaveTimerFire(t))

\* The loaded editor under reloads whose requests are rejected or answered
\* with an error status
NextLoad ==
  \/ ReloadClick
  \/ \E g \in GraphIds : SelectGraph(g)
  \/ \E r \in pending.load : LoadAllDone(r, {})
  \/ \E r \in pending.load : \E x \in ListRequests : LoadAllDone(r, {x})
  \/ \E r \in pending.load : \E failed \in (SUBSET ListRequests) \ {{}} : LoadAllAnswered(r, failed)
SpecLoad == InitPos /\ [][NextLoad]_vars

\* The editor with a selection and the technique panel, through a logout:
\* the key listener and the timers are those of the same App component,
\* whose hooks go on running while the login form is shown (App.tsx 917)
Body == Target("BODY", TRUE, FALSE)
NextOut ==
  \/ \E ns \in SUBSET ({Num(rfNodes[i].id) : i \in 1..Len(rfNodes)}),
        es \in SUBSET ({Num(rfEdges[i].id) : i \in 1..Len(rfEdges)}) :
       SelectionChange(ns, es)
  \/ Logout
  \/ onKeyDown(Body, "Delete")
  \/ \E r \in pending.del : DeleteSettled(r)
  \/ \E t \in techTimers : TechTimerFire(t)
  \/ \E r \in pending.techSave : TechPutDone(r)
  \/ \E r \in pending.techSave : TechPostDone(r)
  \/ \E d \in TechDelays : TechTick(d)
SpecOut == InitPanel /\ [][NextOut]_vars

\* The page from its opening with a stored token: the who-am-I answer starts
\* the automatic load, whose answer the network delivers at some time
\* (fetch settles every request), while the user may reload, create a graph
\* or select one
LoadSettles == \E r \in pending.load : LoadAllDone(r, {})
NextChain ==
  \/ \E r \in pending.me, status \in MeStatuses : FetchMeDone(r, status)
  \/ LoadSettles
  \/ ReloadClick
  \/ \E input \in NameInputs : createGraph(input)
  \/ \E r \in pending.createGraph : CreateGraphDone(r)
  \/ \E g \in Ids(graphs) : SelectGraph(g)
SpecChain ==
  /\ Init /\ [][NextChain]_vars
  /\ WF_vars(LoadSettles)

-----------------------------------------------------------------------------
\* The keyboard: key presses on the canvas, in the form controls and in
\* content-editable elements, with techniques and edges selected
KeyTargets == {Target("INPUT", TRUE, FALSE), Target("TEXTAREA", TRUE, FALSE),
               Target("SELECT", TRUE, FALSE), Target("DIV", TRUE, TRUE), Canvas,
               Target("svg", FALSE, FALSE)}
Keys == {"Backspace", "Delete", "a"}

NextKeys ==
  \/ \E ns \in SUBSET ({Num(rfNodes[i].id) : i \in 1..Len(rfNodes)}),
        es \in SUBSET ({Num(rfEdges[i].id) : i \in 1..Len(rfEdges)}) :
       SelectionChange(ns, es)
  \/ \E target \in KeyTargets, key \in Keys : onKeyDown(target, key)
  \/ \E r \in pending.del : DeleteSettled(r)
  \/ onKeyDownNodes

InitKeys == InitPos /\ posStore = SavedStore
SpecKeys == InitKeys /\ [][NextKeys]_vars

-----------------------------------------------------------------------------
\* Claims

RenderedIds(rf) == {rf[i].id : i \in 1..Len(rf)}
RebuildOps == {"loadAll.resolved", "graph.select", "onConnect.created",
               "deleteEdgesById.done", "deleteNodesById.done", "onEdgeDoubleClick"}

\* C1: after the rebuild effect has run, the rendered node ids are the ids
\* of the local nodes of the selected graph and the rendered edge ids are the
\* ids of the local edges with both ends among those nodes; with no graph
\* selected nothing is rendered.
C1_RebuildProjection ==
  LET inG == {n \in Range(nodes) : n.graph_id = selectedGraphId}
      gIds == {n.id : n \in inG}
  IN  /\ ev.op \in RebuildOps =>
           /\ RenderedIds(rfNodes) = {Str(i) : i \in gIds}
           /\ RenderedIds(rfEdges) =
                {Str(e.id) : e \in {x \in Range(edges) :
                                      x.from_node_id \in gIds /\ x.to_node_id \in gIds}}
      /\ selectedGraphId = NULL => rfNodes = <<>> /\ rfEdges = <<>>
C1_Witness ==
  /\ ev.op = "loadAll.resolved" /\ selectedGraphId = 1
  /\ Len(rfNodes) = 2 /\ Len(rfEdges) = 1
  /\ \E e \in Range(edges) : e.from_node_id = 2 /\ e.to_node_id = 3

\* C2: once onConnect has handled a failed create, every rendered edge is an
\* edge of the local edge collection (the optimistic edge is gone).
C2_OptimisticEdgeGone ==
  ev.op = "onConnect.failed" =>
    \A i \in 1..Len(rfEdges) : \E e \in Range(edges) : rfEdges[i].id = Str(e.id)

C4_ExactlyOneConfirmed ==
  ev.op = "onConnect.created" =>
    LET c == ev.edge
        st == {i \in 1..Len(rfEdges) : /\ rfEdges[i].source = Str(c.from_node_id)
                                       /\ rfEdges[i].target = Str(c.to_node_id)}
    IN  /\ c \in Range(edges)
        /\ Cardinality(st) = 1
        /\ \A i \in st : /\ rfEdges[i].id = Str(c.id)
                         /\ rfEdges[i].label = c.label
                         /\ rfEdges[i].stroke = edgeStroke(c.edge_type)

\* C4 as amended: after a successful create of c for (s,t), c is the last of
\* the local edges, no provisional edge is rendered, and the rendered edges
\* hold c's edge (c's id, s, t, c's label and the colour of c's type) exactly
\* when s and t are local nodes of the selected graph.
C4_ConfirmedEdgeRendered ==
  ev.op = "onConnect.created" =>
    LET c == ev.edge
        gIds == {n.id : n \in {x \in Range(nodes) : x.graph_id = selectedGraphId}}
        mine == {i \in 1..Len(rfEdges) : /\ rfEdges[i].id = Str(c.id)
                                         /\ rfEdges[i].source = Str(c.from_node_id)
                                         /\ rfEdges[i].target = Str(c.to_node_id)
                                         /\ rfEdges[i].label = c.label
                                         /\ rfEdges[i].stroke = edgeStroke(c.edge_type)}
    IN  /\ edges # <<>> /\ edges[Len(edges)] = c
        /\ \A i \in 1..Len(rfEdges) : IsFinite(Num(rfEdges[i].id))
        /\ (mine # {}) <=> ({c.from_node_id, c.to_node_id} \subseteq gIds)
C4_Witness ==
  /\ ev.op = "onConnect.created"
  /\ \E i \in 1..Len(rfEdges) : rfEdges[i].id = Str(ev.edge.id)

Joins(rf, s, t) == \E i \in 1..Len(rf) : rf[i].source = Str(s) /\ rf[i].target = Str(t)
EdgeHandlerStarts == {"onConnect.add", "onConnect.send", "onKeyDown", "onKeyDown.nodes",
                      "onEdgeDoubleClick"}
CreateDeleteStarts == EdgeHandlerStarts \ {"onEdgeDoubleClick"}

\* C5 as claimed: the edge is drawn before the create request is sent, and
\* no other edge operation changes the rendered edges before its request is
\* answered.
C5_OnlyOptimisticOperation ==
  [][/\ ev'.op = "onConnect.send" => Joins(rfEdges, cur.source, cur.target)
     /\ (ev'.op \in EdgeHandlerStarts /\ rfEdges' # rfEdges) => ev'.op = "onConnect.add"]_vars

\* C5 as amended: the edge is drawn before the create request is sent; of
\* the operations that create or delete edges it is the only one that
\* changes the rendered edges before its request is answered (the edge type
\* update changes them before its answer too).
C5_DrawnBeforeRequest ==
  [][/\ ev'.op = "onConnect.send" =>
          /\ Joins(rfEdges, cur.source, cur.target)
          /\ Joins(rfEdges', cur.source, cur.target)
     /\ (ev'.op \in CreateDeleteStarts /\ rfEdges' # rfEdges) => ev'.op = "onConnect.add"]_vars
C5_Witness ==
  /\ ev.op = "onConnect.send"
  /\ \E r \in pending.connect :
       \E i \in 1..Len(rfEdges) : rfEdges[i].id = ProvId(Str(r.source), Str(r.target))

\* C6: a rejected bulk load sets the banner to the load-failure message and
\* changes no collection and no selection.
C6_RejectedLoadKeepsState ==
  [][ev'.op = "loadAll.rejected" =>
       /\ error' = Msg("Failed to load data from backend")
       /\ UNCHANGED <<users, graphs, nodes, edges, selectedUserId, selectedGraphId>>]_vars
C6_Witness ==
  /\ ev.op = "loadAll.rejected" /\ error = Msg("Failed to load data from backend")
  /\ nodes # <<>> /\ selectedGraphId # NULL

DeleteDone   == {"deleteEdgesById.done", "deleteNodesById.done"}
DeleteFailed == {"deleteEdgesById.failed", "deleteNodesById.failed"}
Targeted(e) ==
  IF e.op \in {"deleteEdgesById.done", "deleteEdgesById.failed"}
    THEN e.ids \cap Ids(edges)
    ELSE (e.ids \cap Ids(nodes))
         \cup {x.id : x \in {y \in Range(edges) : y.from_node_id \in e.ids
                                                  \/ y.to_node_id \in e.ids}}

C9_EdgesBeforeNodes ==
  [][\A r \in pending'.del \ pending.del :
       (r.kind = "nodes" /\ r.afterEdges # {}) =>
         /\ \A q \in pending.del : q.press # r.press
         /\ r.afterEdges \cap Ids(edges) = {}]_vars
C9_Witness ==
  /\ ev.op = "onKeyDown.nodes"
  /\ \E r \in pending.del : r.kind = "nodes" /\ r.afterEdges = {1} /\ r.ids = {2}

\* C10: node-change events that each arrive within the save delay of the one
\* before produce exactly one write to position storage: it comes SaveDelay
\* ms after the last of them, with no other write in between, and stores the
\* positions the rendered nodes have at that moment; after the last event
\* its timer is pending and not overdue; never is more than one save timer
\* pending.
C10_DebounceCollapse ==
  /\ Cardinality(timers) <= 1
  /\ \A i \in 1..Len(log) :
       log[i].kind # "event" =>
         /\ log[i].kind = "write"
         /\ i > 1 /\ log[i - 1].kind = "event"
         /\ log[i].at = log[i - 1].at + SaveDelay
  /\ \A i \in 1..Len(log) :
       log[i].kind = "event" =>
         IF i < Len(log)
           THEN log[i + 1].kind = "event" => log[i + 1].at <= log[i].at + SaveDelay
           ELSE /\ now <= log[i].at + SaveDelay
                /\ {t.due : t \in timers} = {log[i].at + SaveDelay}
  /\ ev.op = "saveTimer" =>
       loadPositions(posStore, log[Len(log)].g) = PosMapOf(rfNodes)
\* two events 100 ms apart, the second a drag, then the one write that
\* stores the dragged position
C10_Witness ==
  /\ ev.op = "saveTimer"
  /\ \E i \in 2..(Len(log) - 1) :
       /\ log[i - 1].kind = "event" /\ log[i].kind = "event"
       /\ log[i].at > log[i - 1].at /\ log[i].at < log[i - 1].at + SaveDelay
       /\ i + 1 = Len(log) /\ log[i + 1].kind = "write"
  /\ \E k \in DOMAIN loadPositions(posStore, selectedGraphId) :
       loadPositions(posStore, selectedGraphId)[k] \in DragPositions

\* C11: every write to position storage stores, under the key of a graph G,
\* the complete position map of G: an entry for every local node of G and
\* for no node of another graph.
C11_WriteHoldsOwnGraph ==
  ev.op = "saveTimer" =>
    LET g == log[Len(log)].g
    IN  DOMAIN loadPositions(posStore, g) = {Str(i) : i \in Ids(graphNodes(nodes, g))}

\* C12: what savePositions(G, m) stored is what loadPositions(G) returns;
\* saving for G leaves what loadPositions returns for every other graph; and
\* a rebuild places every node that has a saved entry at its saved
\* coordinates.
C12_PositionRoundTrip ==
  /\ [](ev.op = "savePositions" =>
          loadPositions(posStore, log[Len(log)].g) = log[Len(log)].map)
  /\ [][ev'.op = "savePositions" =>
          \A g \in GraphIds \ {log'[Len(log')].g} :
            loadPositions(posStore', g) = loadPositions(posStore, g)]_vars
  /\ [](ev.op \in {"graph.select", "search", "loadAll.resolved"} =>
          \A i \in 1..Len(rfNodes) :
            rfNodes[i].id \in DOMAIN loadPositions(posStore, selectedGraphId) =>
              rfNodes[i].position =
                loadPositions(posStore, selectedGraphId)[rfNodes[i].id])
\* a map saved for graph 2 and then rendered, with graph 1's saved map intact
C12_Witness ==
  /\ ev.op = "graph.select" /\ selectedGraphId = 2
  /\ log # <<>> /\ log[1].g = 2 /\ Str(3) \in DOMAIN log[1].map
  /\ rfNodes[1].position = log[1].map[Str(3)]
  /\ rfNodes[1].position # SavedPos(3)
  /\ loadPositions(posStore, 1) = loadPositions(SavedStore, 1)

NewIds(before, after) == Ids(after) \ Ids(before)
\* C13: createNode and createGraph leave the local nodes and graphs as they
\* are until the POST is answered; a success answer appends the created
\* entity; an error status or a thrown request changes neither collection
\* and sets the message of the failure.
C13_AppendOnlyAfterSuccess ==
  [][/\ ev'.op \in {"createNode", "createGraph"} => UNCHANGED <<nodes, graphs>>
     /\ ev'.op = "createNode.created" =>
          /\ ev'.status = 201 /\ graphs' = graphs
          /\ \E x \in Issued("node") : nodes' = Append(nodes, x) /\ {x.id} = ev'.ids
     /\ ev'.op = "createGraph.created" =>
          /\ ev'.status = 201 /\ nodes' = nodes
          /\ \E x \in Issued("graph") : graphs' = Append(graphs, x) /\ {x.id} = ev'.ids
     /\ ev'.op = "createNode.failed" =>
          /\ UNCHANGED <<nodes, graphs>>
          /\ error' = IF ev'.status = 0
                        THEN Msg("Failed to create node (network error)")
                        ELSE [msg |-> "Failed to create node", status |-> ev'.status,
                              body |-> "error"]
     /\ ev'.op = "createGraph.failed" =>
          /\ UNCHANGED <<nodes, graphs>>
          /\ error' = IF ev'.status = 0
                        THEN Msg("Failed to create graph (network error)")
                        ELSE [msg |-> "Failed to create graph", status |-> ev'.status,
                              body |-> "error"]
     /\ NewIds(nodes, nodes') # {} => ev'.op \in {"createNode.created", "loadAll.resolved"}
     /\ NewIds(graphs, graphs') # {} => ev'.op \in {"createGraph.created", "loadAll.resolved"}
    ]_vars
\* a created technique in the local nodes after a failed creation of a graph
C13_Witness ==
  /\ ev.op = "createGraph.failed" /\ ev.status = 500
  /\ Len(nodes) = 4 /\ nodes[4].id = 4 /\ Len(graphs) = 2

\* a step of the handler or callback op; time passing is no such step
TechStep(op) == ev'.op = op /\ now' = now
IsRequest(e) == e.kind \in {"PUT", "POST"}

\* C14: a save sends a PUT first, when the autosave timer fires, and
\* nothing else then; when the PUT is answered a POST for the same node with
\* the same video_url and steps is sent if and only if the answer's status is
\* 404, and any other answer, a 2xx one included, sends nothing; no other
\* step sends a request for a technique note, so that a save has at most one
\* POST and it comes after its PUT.
C14_PutFirstPostOn404 ==
  /\ [](\A i \in 1..Len(log) :
          log[i].kind = "POST" =>
            /\ \E j \in 1..(i - 1) :
                 log[j] = [log[i] EXCEPT !.kind = "PUT", !.src = "auto", !.at = log[j].at]
            /\ \A k \in 1..Len(log) :
                 (log[k].kind = "POST" /\ log[k].sid = log[i].sid) => k = i)
  /\ [][TechStep("techniqueSaveTimer") =>
          /\ Len(log') = Len(log) + 1 /\ SubSeq(log', 1, Len(log)) = log
          /\ log'[Len(log')].kind = "PUT" /\ {log'[Len(log')].n} = ev'.ids]_vars
  /\ [][TechStep("saveTechniqueDraft.put") =>
          IF ev'.status = 404
            THEN /\ Len(log') = Len(log) + 1 /\ SubSeq(log', 1, Len(log)) = log
                 /\ log'[Len(log')].kind = "POST" /\ {log'[Len(log')].sid} = ev'.ids
            ELSE log' = log]_vars
  /\ [][ev'.op \notin {"techniqueSaveTimer", "saveTechniqueDraft.put"} =>
          SelectSeq(log', IsRequest) = SelectSeq(log, IsRequest)]_vars
\* the note of technique 2 is created: the PUT was answered 404 and the
\* POST that followed 201
C14_Witness ==
  /\ ev.op = "saveTechniqueDraft.post" /\ ev.status = 201
  /\ \E i, j \in 1..Len(log) :
       /\ i < j /\ log[i].kind = "PUT" /\ log[j].kind = "POST"
       /\ log[i].sid = log[j].sid /\ log[i].n = 2 /\ log[i].v = "v1"
       /\ srvTech[2] = Tech("v1", log[i].s)

\* saveTechniqueDraft followed by loadTechniqueDraft, every request answered
\* by the backend
SaveThenLoad(srv, n, d) ==
  LET put   == TechPut(srv, n, TechBody(d))
      after == IF NeedsCreate(put.status)
                 THEN TechPost(put.srv, n, TechBody(d)).srv ELSE put.srv
  IN  loadTechniqueDraft(TechGet(after, n))
NewSaves == pending'.techSave \ pending.techSave

\* C15: whatever technique records the backend holds, saving the draft
\* {videoUrl: v, steps: s} for a node N and then loading N's draft returns
\* videoUrl = v and steps = s, for a node that had a record and for one that
\* had none; and in the running panel, once a request of a save was accepted
\* by the backend (2xx), a load of that node returns the two saved fields.
C15_TechniqueRoundTrip ==
  /\ [](\A n \in NodeIds, v \in Videos \cup {""}, s \in StepsTexts \cup {""} :
          SaveThenLoad(srvTech, n, Draft(v, s)) = Draft(v, s))
  /\ [][\A r \in NewSaves :
          IsOk(r.status) => loadTechniqueDraft(TechGet(srvTech', r.n)) = r.draft]_vars
\* technique 2 had no note; the video typed into its panel was saved by a
\* POST, and opening the panel again shows it
C15_Witness ==
  /\ ev.op = "openTechniquePanel.loaded" /\ ev.status = 200 /\ ev.ids = {2}
  /\ InitSrvTech[2] = NoTech
  /\ techVideoUrl = "v1" /\ techSteps = ""
  /\ \E i \in 1..Len(log) : log[i].kind = "POST" /\ log[i].n = 2 /\ log[i].v = "v1"

\* C16: loadTechniqueDraft returns a draft for every answer, and for a node
\* without a record (404), as for a server error and a request that threw,
\* the draft has videoUrl = "" and steps = ""; every pending load can
\* complete, and when one with such an answer does, the panel is open on the
\* node with both fields empty and the error banner is left as it was.
C16_LoadNeverFails ==
  /\ [](\A n \in NodeIds :
          \A a \in {TechGet(srvTech, n)} \cup TechFailures(srvTech) :
            /\ loadTechniqueDraft(a) \in [videoUrl : Videos \cup {""},
                                          steps : StepsTexts \cup {""}]
            /\ ~IsOk(a.status) => loadTechniqueDraft(a) = EmptyDraft)
  /\ [](\A r \in pending.techLoad : ENABLED TechLoadDone(r))
  /\ [][(TechStep("openTechniquePanel.loaded") /\ ~IsOk(ev'.status)) =>
          /\ isPanelOpen' /\ {activeNodeId'} = ev'.ids
          /\ techVideoUrl' = "" /\ techSteps' = ""
          /\ error' = error]_vars
\* the panel was opened on technique 2, which has no note: the answer is a
\* 404 and the panel shows two empty fields
C16_Witness ==
  /\ ev.op = "openTechniquePanel.loaded" /\ ev.status = 404 /\ ev.ids = {2}
  /\ isPanelOpen /\ activeNodeId = 2 /\ techVideoUrl = "" /\ techSteps = ""
  /\ error = NoError /\ ~TechRec(srvTech, 2).present

\* the entries of the history after entry i, up to the next time the panel
\* is opened, edited or closed
NextPanelEntry(i) ==
  IF \E k \in (i + 1)..Len(log) : IsPanelEntry(log[k])
    THEN Min({k \in (i + 1)..Len(log) : IsPanelEntry(log[k])})
    ELSE Len(log) + 1
AutoPutsAfter(i) ==
  {k \in (i + 1)..(NextPanelEntry(i) - 1) : log[k].kind = "PUT" /\ log[k].src = "auto"}

\* C17: while the panel is open on a node N, an edit that is followed by
\* another edit less than 500 ms later produces no save request of its own;
\* the last edit of such a run produces exactly one autosave PUT, for N, 500
\* ms after it, with the values both fields had after that edit; until then
\* its timer is the only one pending. No edit sends a request in its own
\* step.
C17_AutosaveDebounce ==
  /\ [](\A i \in 1..Len(log) :
          log[i].kind = "edit" =>
            LET nxt == NextPanelEntry(i)
                due == log[i].at + AutosaveDelay
            IN  /\ \A k \in AutoPutsAfter(i) :
                     /\ log[k].at = due
                     /\ log[k].n = log[i].n /\ log[k].v = log[i].v /\ log[k].s = log[i].s
                /\ Cardinality(AutoPutsAfter(i)) <= 1
                /\ (nxt <= Len(log) /\ log[nxt].kind = "edit") =>
                     /\ log[nxt].at <= due
                     /\ log[nxt].at < due => AutoPutsAfter(i) = {}
                /\ nxt > Len(log) =>
                     IF AutoPutsAfter(i) = {}
                       THEN /\ now <= due
                            /\ techTimers =
                                 {[id |-> techniqueSaveTimer, due |-> due, n |-> log[i].n,
                                   draft |-> Draft(log[i].v, log[i].s)]}
                       ELSE techTimers = {})
  /\ [][(TechStep("setTechVideoUrl") \/ TechStep("setTechSteps")) =>
          SelectSeq(log', IsRequest) = SelectSeq(log, IsRequest)]_vars
\* two edits 250 ms apart, of the video and of the steps, and the one PUT
\* that carries both, 500 ms after the second
C17_Witness ==
  /\ ev.op = "techniqueSaveTimer"
  /\ \E i \in 1..(Len(log) - 2) :
       /\ log[i].kind = "edit" /\ log[i + 1].kind = "edit" /\ log[i + 2].kind = "PUT"
       /\ log[i + 1].at = log[i].at + 250
       /\ log[i + 2].at = log[i + 1].at + AutosaveDelay
       /\ log[i + 2].v = "v2" /\ log[i + 2].s = "s1"
       /\ i + 2 = Len(log)
       /\ Len(SelectSeq(log, IsPut)) = 1

\* C18: closing the panel sends no save request of its own and leaves the
\* save the debounce had scheduled pending, so that it still happens after
\* the close.
C18_CloseKeepsScheduledSave ==
  [][TechStep("closeTechniquePanel") =>
       /\ SelectSeq(log', IsRequest) = SelectSeq(log, IsRequest)
       /\ techTimers' = techTimers]_vars

MaxGrid == 10
\* the least c with c * c >= n
Cols(n) == CHOOSE c \in 1..n : c * c >= n /\ (c - 1) * (c - 1) < n

\* C19: after groupNodesCenter with a graph selected and n >= 1 rendered
\* nodes, the node at index i is at x = 200 + (i mod c) * 120, y = 200 +
\* floor(i / c) * 120 with c = ceil(sqrt(n)), no two nodes share a position,
\* and in that same step storage holds exactly this position map under the
\* selected graph and what it held before under every other graph; the same
\* positions, all distinct, come out of the layout for every n up to MaxGrid.
C19_GridLayout ==
  /\ [](ev.op = "groupNodesCenter" /\ selectedGraphId # NULL /\ rfNodes # <<>> =>
          LET n == Len(rfNodes)
          IN  /\ \A k \in 1..n :
                   rfNodes[k].position =
                     Pos(200 + ((k - 1) % Cols(n)) * 120, 200 + ((k - 1) \div Cols(n)) * 120)
              /\ \A j, k \in 1..n : j # k => rfNodes[j].position # rfNodes[k].position
              /\ loadPositions(posStore, selectedGraphId) = PosMapOf(rfNodes)
              /\ DOMAIN PosMapOf(rfNodes) = RenderedNodeIds)
  /\ [](ev.op = "groupNodesCenter" =>
          \A n \in 1..MaxGrid : \A j, k \in 0..(n - 1) :
            /\ GridPos(j, n) = Pos(200 + (j % Cols(n)) * 120, 200 + (j \div Cols(n)) * 120)
            /\ j # k => GridPos(j, n) # GridPos(k, n))
  /\ [][ev'.op = "groupNodesCenter" =>
          \A g \in DOMAIN posStore \ {selectedGraphId} :
            loadPositions(posStore', g) = loadPositions(posStore, g)]_vars
\* a third technique was created in graph 1 and the three were grouped: two
\* in the first row and one in the second, stored as laid out
C19_Witness ==
  /\ ev.op = "groupNodesCenter" /\ selectedGraphId = 1 /\ Len(rfNodes) = 3
  /\ rfNodes[2].position = Pos(320, 200) /\ rfNodes[3].position = Pos(200, 320)
  /\ loadPositions(posStore, 1)[rfNodes[3].id] = Pos(200, 320)

\* C20: a groupNodesCenter that directly follows another one, with nothing
\* done in between, leaves the rendered nodes, their coordinates included,
\* and the stored position maps as the first one left them.
C20_GroupIdempotent ==
  [][(ev.op = "groupNodesCenter" /\ ev'.op = "groupNodesCenter") =>
       /\ rfNodes' = rfNodes
       /\ posStore' = posStore]_vars
\* graph 1 was grouped twice and nothing else was done: its two nodes are
\* on the grid
C20_Witness ==
  /\ ev.op = "groupNodesCenter" /\ ops = 2 /\ Len(log) = 2
  /\ \A i \in 1..2 : log[i].kind = "group" /\ log[i].g = 1
  /\ Len(rfNodes) = 2
  /\ rfNodes[1].position = Pos(200, 200) /\ rfNodes[2].position = Pos(320, 200)
  /\ loadPositions(posStore, 1) = PosMapOf(rfNodes)

NameHas(label, q) == Includes(ToLower(label), ToLower(Trim(q)))

\* C21: when the search query is non-empty after trimming, a rendered node
\* is dimmed if and only if its name does not contain the query, whatever
\* the number of matches, and a rendered edge is dimmed unless both of its
\* ends are matches; with an empty query nothing is dimmed.
C21_DimAllButMatches ==
  LET hits == {rfNodes[i].id : i \in {j \in 1..Len(rfNodes) :
                                        NameHas(rfNodes[j].label, searchQuery)}}
  IN  IF Trim(searchQuery) = <<>>
        THEN /\ \A i \in 1..Len(rfNodes) : ~rfNodes[i].dimmed
             /\ \A i \in 1..Len(rfEdges) : ~rfEdges[i].dimmed
        ELSE /\ \A i \in 1..Len(rfNodes) : rfNodes[i].dimmed <=> rfNodes[i].id \notin hits
             /\ \A i \in 1..Len(rfEdges) :
                  rfEdges[i].dimmed <=>
                    ~(rfEdges[i].source \in hits /\ rfEdges[i].target \in hits)

\* the places in the local node collection of the selected graph's nodes
\* whose name contains the trimmed query, case-insensitively
MatchPlaces ==
  {i \in 1..Len(nodes) : /\ nodes[i].graph_id = selectedGraphId
                          /\ NameHas(nodes[i].name, searchQuery)}

\* C22: searchResults is empty for a query that is empty after trimming;
\* otherwise its k-th entry is the k-th node, in the order of the local node
\* collection, of the selected graph whose name contains the trimmed query
\* case-insensitively, and it has 12 entries when there are more than 12
\* such nodes and all of them otherwise; it holds no node of another graph.
C22_SearchResults ==
  LET R == searchResults(searchQuery, nodes, selectedGraphId)
  IN  IF Trim(searchQuery) = <<>> THEN R = <<>>
      ELSE /\ Len(R) = Min({12, Cardinality(MatchPlaces)})
           /\ \A k \in 1..Len(R) :
                /\ \E i \in MatchPlaces :
                     R[k] = nodes[i] /\ Cardinality({j \in MatchPlaces : j < i}) = k - 1
                /\ R[k].graph_id = selectedGraphId
\* thirteen techniques of graph 1 contain "a", and so do techniques of graph
\* 2: the list holds the first twelve of graph 1
C22_Witness ==
  /\ ev.op = "search" /\ Trim(searchQuery) = <<"a">> /\ selectedGraphId = 1
  /\ Cardinality(MatchPlaces) = 13
  /\ Len(searchResults(searchQuery, nodes, selectedGraphId)) = 12
  /\ \E i \in 1..Len(nodes) : nodes[i].graph_id = 2 /\ NameHas(nodes[i].name, searchQuery)
  /\ searchResults(searchQuery, nodes, selectedGraphId)[12].id = 19

\* C23: when a request of a technique save fails (a PUT answered neither
\* 2xx nor 404 or thrown, a POST answered non-2xx or thrown), the step that
\* handles the answer sets a message in the error banner.
C23_SaveFailureSetsBanner ==
  [][((TechStep("saveTechniqueDraft.put") /\ ~IsOk(ev'.status) /\ ev'.status # 404)
        \/ (TechStep("saveTechniqueDraft.post") /\ ~IsOk(ev'.status))) =>
       error' # NoError]_vars

\* the local and the rendered edge id show what the update request r sent
ShowsUpdate(es, rf, r) ==
  /\ \E i \in 1..Len(es) : es[i].id = r.id
  /\ \A i \in 1..Len(es) :
       es[i].id = r.id =>
         IF r.patch = "label" THEN es[i].label = r.label ELSE es[i].edge_type = r.edge_type
  /\ \A i \in 1..Len(rf) :
       rf[i].id = Str(r.id) =>
         IF r.patch = "label" THEN rf[i].label = r.label
         ELSE rf[i].stroke = edgeStroke(r.edge_type)

\* C24: a double click on a rendered edge and Save label put the new type
\* or label into the local edge collection and the rendered edge in the step
\* that sends the update; when the update is then rejected (non-2xx or
\* thrown), the step that handles the answer leaves the local edges and the
\* rendered edges as they are and sets the message that says the change is
\* in the UI only.
C24_RejectedUpdateStays ==
  /\ [][ev'.op = "saveSelectedEdgeLabel" /\ (\E i \in 1..Len(edges) : edges[i].id = selectedEdgeId) =>
          \E r \in pending'.upd :
            /\ r.id = selectedEdgeId /\ r.patch = "label" /\ r.label \in {Trim(d) : d \in LabelDrafts}
            /\ ShowsUpdate(edges', rfEdges', r)]_vars
  /\ [][ev'.op = "onEdgeDoubleClick" =>
          \E r \in pending'.upd : r.patch = "edge_type" /\ ShowsUpdate(edges', rfEdges', r)]_vars
  /\ [][ev'.op \in {"updateEdgeBackend.failed", "updateEdgeBackend.label.failed"} =>
          /\ edges' = edges /\ rfEdges' = rfEdges
          /\ error' = IF ev'.op = "updateEdgeBackend.failed"
                         THEN EdgeNotSavedMsg ELSE LabelNotSavedMsg]_vars
\* the label of edge 1 was set to "go" and the backend rejected it: local
\* and rendered edge show "go", the backend's edge has no label, and the
\* banner says so
C24_Witness ==
  /\ ev.op = "updateEdgeBackend.label.failed"
  /\ edges[1].id = 1 /\ edges[1].label = <<"g", "o">>
  /\ rfEdges[1].id = Str(1) /\ rfEdges[1].label = <<"g", "o">>
  /\ \A e \in srvEdges : e.label = <<>>
  /\ error = LabelNotSavedMsg

\* C25: while a user is logged in, every request to the users, graphs,
\* nodes, edges and technique resources that is in flight was sent with the
\* current token in its Authorization header.
C25_RequestsCarryToken ==
  me # NULL => \A f \in DOMAIN pending \ {"me", "login"} : \A r \in pending[f] : r.auth = authToken

\* C26: the answer of the auth effect's who-am-I check for the current token,
\* when it is non-2xx, removes the stored token and leaves authToken and me
\* null (the login form is shown while me is null); and whenever no token is
\* held, me is null, so that the editor is not shown.
C26_NoTokenNoEditor ==
  /\ [](authToken = NoToken => me = NULL)
  /\ [][\A r \in pending.me :
          (r.from = "effect" /\ r.tok = authToken /\ r \notin pending'.me
             /\ ev'.op = "auth.rejected")
            => (localStorage'.token = NoToken /\ authToken' = NoToken /\ me' = NULL)]_vars

\* C27: a Backspace or Delete press whose target is an INPUT, a TEXTAREA, a
\* SELECT or a content-editable element, and a press of any other key, sends
\* no delete request and changes neither the collections, nor the selection,
\* nor the view, nor the backend.
EditableTarget(t) == t.tag \in {"INPUT", "TEXTAREA", "SELECT"} \/ t.editable
IsKeyPress(e) == e.op \in {"onKeyDown", "onKeyDown.ignored"}
C27_TypingKeysDeleteNothing ==
  [][(IsKeyPress(ev') /\ (EditableTarget(ev'.target) \/ ev'.key \notin {"Backspace", "Delete"}))
       => UNCHANGED <<pending, collVars, selVars, pickVars, viewVars, error,
                      srvNodes, srvEdges, pc>>]_vars
C27_Witness ==
  /\ ev.op = "onKeyDown.ignored" /\ ev.key = "Backspace" /\ ev.target.tag = "TEXTAREA"
  /\ selectedEdgeIds # {} /\ selectedNodeIds # {} /\ pending.del = {}

\* C28: the answer of an edge-create request is applied whenever it arrives,
\* also after a reload that was started later has finished: the created
\* edge is appended to the local edges, and it is rendered when both of its
\* techniques are.
Rendered(rf, id) == \E i \in 1..Len(rf) : rf[i].id = Str(id)
TimesIn(es, id) == Cardinality({i \in 1..Len(es) : es[i].id = id})
C28_LateCreateAnswerApplied ==
  [][ev'.op = "onConnect.created"
       => /\ edges' = Append(edges, ev'.edge)
          /\ (Rendered(rfNodes', ev'.edge.from_node_id) /\ Rendered(rfNodes', ev'.edge.to_node_id))
               => Rendered(rfEdges', ev'.edge.id)]_vars
\* the reload that finished before the answer had listed the created edge
C28_Witness ==
  /\ ev.op = "onConnect.created"
  /\ TimesIn(edges, ev.edge.id) = 2
  /\ Rendered(rfEdges, ev.edge.id)
  /\ pending.load = {}

\* C29: when the page opens the theme is dark exactly if storage holds "dark"
\* under matlogic:theme; from the first effects on storage holds the theme;
\* a press of the theme button moves the theme to the other one, from which
\* the next press moves it back, and stores it; no other step changes the
\* theme or the stored theme.
IsToggle == ev'.op = "toggleTheme" /\ ops' = ops + 1
C29_ThemePersisted ==
  /\ [](pc = "mount" => (theme = "dark" <=> localStorage.theme = "dark"))
  /\ [](theme \in {"light", "dark"})
  /\ [](pc # "mount" => localStorage.theme = theme)
  /\ [][IsToggle => /\ theme' # theme /\ nextTheme(theme') = theme
                    /\ localStorage'.theme = theme']_vars
  /\ [][theme' # theme => IsToggle]_vars
  /\ [][localStorage'.theme # localStorage.theme => (IsToggle \/ ev'.op = "mount")]_vars
C29_Witness ==
  /\ ev.op = "toggleTheme" /\ ops >= 2
  /\ theme = "dark" /\ localStorage.theme = "dark"
  /\ me # NULL /\ Len(edges) > 0

\* C30: a double click on a rendered edge with a numeric id moves the type of
\* the local edge with that id one step along positive -> neutral ->
\* negative -> positive and leaves the other edges alone, and the edge is
\* rendered in the new type's colour; three steps from any type lead back to
\* it.  A double click on an edge whose id is not a number changes neither
\* the edges, nor the view, nor the banner, and sends nothing.
TypeAfter == [positive |-> "neutral", neutral |-> "negative", negative |-> "positive"]
ColourOf  == [positive |-> "#16a34a", neutral |-> "#1f307cff", negative |-> "#dc2626"]
IsDoubleClick(id) ==
  /\ ev'.op \in {"onEdgeDoubleClick", "onEdgeDoubleClick.ignored"}
  /\ ops' = ops + 1 /\ ev'.ids = {id}
C30_EdgeTypeCycle ==
  /\ [](\A i \in 1..Len(edges) :
          /\ edges[i].edge_type \in DOMAIN TypeAfter
          /\ TypeAfter[TypeAfter[TypeAfter[edges[i].edge_type]]] = edges[i].edge_type
          /\ nextEdgeType(nextEdgeType(nextEdgeType(edges[i].edge_type))) = edges[i].edge_type)
  /\ [][\A id \in ev'.ids : (IsDoubleClick(id) /\ id # NaN) =>
          /\ Len(edges') = Len(edges)
          /\ \A i \in 1..Len(edges) :
               edges'[i] = IF edges[i].id = id
                             THEN [edges[i] EXCEPT !.edge_type = TypeAfter[edges[i].edge_type]]
                             ELSE edges[i]
          /\ \E j \in 1..Len(rfEdges') : rfEdges'[j].id = Str(id)
          /\ \A j \in 1..Len(rfEdges') : \A i \in 1..Len(edges) :
               (rfEdges'[j].id = Str(id) /\ edges[i].id = id)
                 => rfEdges'[j].stroke = ColourOf[TypeAfter[edges[i].edge_type]]]_vars
  /\ [][(IsDoubleClick(NaN))
          => UNCHANGED <<edges, rfEdges, error, pending, srvEdges>>]_vars

\* C31: the Logout step leaves no stored token, authToken and me null, the
\* four collections empty, no user and no graph selected, and nothing
\* rendered.
C31_LogoutClearsAll ==
  [][(ev'.op = "logout" /\ ops' = ops + 1)
       => /\ localStorage'.token = NoToken /\ authToken' = NoToken /\ me' = NULL
          /\ users' = <<>> /\ graphs' = <<>> /\ nodes' = <<>> /\ edges' = <<>>
          /\ selectedUserId' = NULL /\ selectedGraphId' = NULL
          /\ rfNodes' = <<>> /\ rfEdges' = <<>>]_vars
\* Logout in the loaded editor: the load that the login started has been
\* answered before
C31_Witness ==
  /\ ev.op = "logout" /\ pending.load = {} /\ pending.me = {}
  /\ me = NULL /\ nodes = <<>> /\ rfNodes = <<>>

\* C32: createNode called with no graph selected, with no token or with a
\* name that is blank after trimming, and createGraph called with a blank
\* title, with no user or with no token, send no request, leave the
\* collections, the selections and the view as they are, and set the message
\* of one of the conditions that hold.
NodeRefusals ==
  (IF selectedGraphId = NULL THEN {"Select a graph first."} ELSE {})
    \cup (IF authToken = NoToken THEN {"Not authenticated."} ELSE {})
    \cup (IF Trim(ev'.input) = <<>> THEN {"Technique name cannot be empty."} ELSE {})
GraphRefusals ==
  (IF Trim(ev'.input) = <<>> THEN {"Graph title cannot be empty."} ELSE {})
    \cup (IF me = NULL /\ selectedUserId = NULL /\ users = <<>>
            THEN {"No user available to attach the graph to."} ELSE {})
    \cup (IF authToken = NoToken THEN {"Not authenticated."} ELSE {})
Refused(msgs) ==
  /\ pending' = pending
  /\ UNCHANGED <<collVars, selVars, pickVars, viewVars, srvVars, srvIssued>>
  /\ error'.msg \in msgs
C32_CreateGuards ==
  [][/\ (ev'.op = "createNode" /\ ops' = ops + 1 /\ NodeRefusals # {})
          => Refused(NodeRefusals)
     /\ (ev'.op = "createGraph" /\ ops' = ops + 1 /\ GraphRefusals # {})
          => Refused(GraphRefusals)]_vars
\* a proper name with no graph selected yet
C32_Witness ==
  /\ ev.op = "createNode" /\ Trim(ev.input) # <<>>
  /\ selectedGraphId = NULL /\ authToken # NoToken
  /\ error = Msg("Select a graph first.")
\* a proper name in the editor shown with no token
C32_WitnessNoToken ==
  /\ ev.op = "createGraph" /\ Trim(ev.input) # <<>>
  /\ authToken = NoToken /\ error = NotAuthMsg

\* C33: in every reachable state, when me is set (the editor is shown) a
\* token is held.
C33_SessionConsistent == me # NULL => authToken # NoToken

\* C34: the local edges never hold two entries with the same id.
C34_EdgeIdsUnique ==
  \A i, j \in 1..Len(edges) : edges[i].id = edges[j].id => i = j

\* C35: a technique or a graph that the backend created and that is in the
\* local collection leaves it only by a delete or by Logout; the answer of
\* a load never removes it.
Holds(list, id) == \E i \in 1..Len(list) : list[i].id = id
RemovalSteps == {"deleteNodesById.done", "deleteEdgesById.done", "logout"}
C35_CreatedStays ==
  [][\A c \in srvIssued :
       /\ (c.k = "node" /\ Holds(nodes, c.rec.id) /\ ~Holds(nodes', c.rec.id))
            => ev'.op \in RemovalSteps
       /\ (c.k = "graph" /\ Holds(graphs, c.rec.id) /\ ~Holds(graphs', c.rec.id))
            => ev'.op \in RemovalSteps]_vars

\* C36: every save request the autosave sends follows an edit made since
\* the panel was last opened: opening the panel on a technique and editing
\* nothing sends no save request.
C36_NoSaveWithoutEdit ==
  \A k \in 1..Len(log) :
    (log[k].kind = "PUT" /\ log[k].src = "auto") =>
      \E i \in 1..(k - 1) :
        /\ log[i].kind = "edit"
        /\ \A j \in (i + 1)..(k - 1) : log[j].kind # "open"

\* C37: once a node-change event has left technique n of the selected graph
\* at a dragged position p, the position stored for n becomes p, unless a
\* later node-change event comes first; this also when the view is rebuilt
\* before the save timer fires.  (Events early enough for their timer to
\* fall inside the modelled time.)
EventCount == Len(SelectSeq(log, IsEvent))
RfAt(n, p) == \E i \in 1..Len(rfNodes) : rfNodes[i].id = Str(n) /\ rfNodes[i].position = p
StoredAt(n, p) ==
  LET map == loadPositions(posStore, selectedGraphId)
  IN  Str(n) \in DOMAIN map /\ map[Str(n)] = p
C37_DragIsStored ==
  \A n \in NodeIds : \A p \in DragPositions : \A k \in 1..MaxEvents :
    (ev.op = "onNodesChange" /\ EventCount = k /\ RfAt(n, p) /\ now + SaveDelay <= MaxTime)
      ~> (StoredAt(n, p) \/ EventCount > k)

\* C38: loadAll stores an answer as a collection only when the request
\* succeeded: the JSON body of an answer with an error status is never the
\* users, graphs, nodes or edges collection
C38_OnlySuccessStored ==
  /\ users # ErrorBody /\ graphs # ErrorBody
  /\ nodes # ErrorBody /\ edges # ErrorBody

\* C39: while nobody is logged in (me is null) no step sends a delete
\* request or a technique save request, also with a selection or an autosave
\* timer left from before the logout
C39_NoRequestsLoggedOut ==
  [][me = NULL => /\ pending'.del \subseteq pending.del
                  /\ pending'.techSave \subseteq pending.techSave]_vars

\* A step in which loadAll's answer is applied
IsLoadStep == ev'.op = "loadAll.resolved" /\ pending.load \ pending'.load # {}
\* C40, second part: a load never changes an existing user or graph selection
C40_LoadKeepsSelection ==
  [][IsLoadStep => /\ selectedGraphId # NULL => selectedGraphId' = selectedGraphId
                   /\ selectedUserId # NULL => selectedUserId' = selectedUserId]_vars
\* C40, third part: the chain of automatic loads ends
C40_Quiescent == <>[](pending.load = {})
\* C40: the automatic load reaches quiescence: a load never changes an
\* existing user or graph selection, and the chain of loads ends once no
\* user action follows
C40_LoadChain == C40_LoadKeepsSelection /\ C40_Quiescent
====
